---- MODULE Spec2Model ----
(***************************************************************************)
(* A model of promptforge: the template engine (brace analysis, variable   *)
(* extraction, Template construction and formatting) and the chat          *)
(* composition pipeline (ChatTemplate construction, concatenation and      *)
(* resolution).  A string is a sequence of one-character strings.          *)
(***************************************************************************)
EXTENDS Integers, Sequences, FiniteSets, TLC

VARIABLES
    raw,        \* the text handed to Template::new
    phase,      \* "init", "built" (a Template exists) or "rejected"
    tmpl,       \* the Template, or NoTemplate
    newErr,     \* the error of Template::new, or "none"
    lastVars,   \* the runtime map of the last format call
    fmtResult,  \* the result of the last format call
    pairs,      \* the (role, text) list handed to ChatTemplate::from_messages
    cphase,     \* "init", "built" (a ChatTemplate exists) or "failed"
    chat,       \* the messages of the ChatTemplate
    chatErr,    \* the error of from_messages, or "none"
    lastOp,     \* the last ChatTemplate operation
    opL, opR,   \* the operands of the last concatenation
    resVars,    \* the variable map of the last resolution
    resolved,   \* the result of the last resolution
    phIn,       \* the arguments from which a MessagesPlaceholder is obtained
    phOp,       \* the way it was obtained, or "none"
    ph,         \* the result: [kind, value]
    roleMap,    \* the result of to_variables_map: [done, map]
    fsIn,       \* the texts from which a FewShotChatTemplate is built
    fsPhase,    \* "init" or "built" (a FewShotChatTemplate exists)
    fs,         \* the FewShotChatTemplate
    fsOp,       \* the last operation on it
    fsVars,     \* the variable map of that operation
    fsResult,   \* its result
    calls,      \* the partial and clear_partials calls made on the Template
    roleCall    \* a call of Role::to_message and its result

tvars == <<raw, phase, tmpl, newErr, lastVars, fmtResult>>
cvars == <<pairs, cphase, chat, chatErr, lastOp, opL, opR, resVars, resolved>>
pvars == <<phIn, phOp, ph>>
fvars == <<fsIn, fsPhase, fs, fsOp, fsVars, fsResult>>
xvars == <<pvars, roleMap, fvars, calls, roleCall>>
vars == <<tvars, cvars, xvars>>

-----------------------------------------------------------------------------
(* Bounds and input alphabets.                                             *)

\* Longest raw template, counted in pieces.
MaxPieces == 3

\* The pieces raw template texts are put together from.
Pieces ==
    { <<"{">>, <<"}">>, <<" ">>, <<"a">>,
      <<"{", "a", "}">>, <<"{", "b", "}">>,
      <<"{", "{", "a", "}", "}">>, <<"{", "{", "b", "}", "}">> }

RECURSIVE PieceStrings(_)
PieceStrings(n) ==
    IF n = 0 THEN { <<>> }
    ELSE LET prev == PieceStrings(n - 1)
         IN  prev \cup { p \o s : p \in Pieces, s \in prev }

RawStrings == PieceStrings(MaxPieces)

\* Variable names and the values supplied for them.
VarNames == { <<"a">>, <<"b">> }
Values == { <<>>, <<"b">>, <<"{", "b", "}">> }
PartialValues == { <<>>, <<"a">> }

\* A map is a function whose domain is the set of its keys.
MapsOver(keys, vals) == UNION { [d -> vals] : d \in SUBSET keys }
VarMaps == MapsOver(VarNames, Values)
EmptyMap == [k \in {} |-> <<>>]

-----------------------------------------------------------------------------
(* String helpers (std::str).                                              *)

IsWhitespace(c) == c = " "

RECURSIVE CountChar(_, _)
CountChar(s, c) ==
    IF s = <<>> THEN 0
    ELSE (IF Head(s) = c THEN 1 ELSE 0) + CountChar(Tail(s), c)

\* pat occurs in s at index i.
OccursAt(s, pat, i) ==
    /\ i >= 1
    /\ i + Len(pat) - 1 <= Len(s)
    /\ \A k \in 1..Len(pat) : s[i + k - 1] = pat[k]

\* str::contains
Contains(s, pat) == \E i \in 1..(Len(s) - Len(pat) + 1) : OccursAt(s, pat, i)

\* str::replace: every non-overlapping occurrence, left to right.
RECURSIVE ReplaceFrom(_, _, _, _)
ReplaceFrom(s, pat, val, i) ==
    IF i > Len(s) THEN <<>>
    ELSE IF OccursAt(s, pat, i)
         THEN val \o ReplaceFrom(s, pat, val, i + Len(pat))
         ELSE <<s[i]>> \o ReplaceFrom(s, pat, val, i + 1)

\* A faulty replacement: only the first occurrence is replaced.
RECURSIVE ReplaceFirstFrom(_, _, _, _)
ReplaceFirstFrom(s, pat, val, i) ==
    IF i > Len(s) THEN <<>>
    ELSE IF OccursAt(s, pat, i)
         THEN val \o SubSeq(s, i + Len(pat), Len(s))
         ELSE <<s[i]>> \o ReplaceFirstFrom(s, pat, val, i + 1)

ReplaceFirst(s, pat, val) == ReplaceFirstFrom(s, pat, val, 1)

Replace(s, pat, val) == ReplaceFrom(s, pat, val, 1)

\* str::trim
RECURSIVE TrimStart(_)
TrimStart(s) ==
    IF s # <<>> /\ IsWhitespace(Head(s)) THEN TrimStart(Tail(s)) ELSE s

RECURSIVE TrimEnd(_)
TrimEnd(s) ==
    IF s # <<>> /\ IsWhitespace(s[Len(s)])
    THEN TrimEnd(SubSeq(s, 1, Len(s) - 1))
    ELSE s

Trim(s) == TrimEnd(TrimStart(s))

\* str::split_whitespace().count(): the starts of maximal non-whitespace runs.
WordCount(s) ==
    Cardinality({ i \in 1..Len(s) :
        /\ ~IsWhitespace(s[i])
        /\ (i = 1 \/ IsWhitespace(s[i - 1])) })

\* Index of the first "}" at or after i, or 0.
RECURSIVE FirstRightBrace(_, _)
FirstRightBrace(s, i) ==
    IF i > Len(s) THEN 0
    ELSE IF s[i] = "}" THEN i
    ELSE FirstRightBrace(s, i + 1)

-----------------------------------------------------------------------------
(* Brace groups: the regular expressions of braces.rs and placeholder.rs.  *)

NoGroup == [found |-> FALSE, lo |-> 0, hi |-> 0, next |-> 0]

\* A group opened by k braces at index i whose content runs up to the "}"
\* at index j: the content must not be empty, and one more "}" is consumed
\* when it follows.
GroupUpTo(s, i, k, j) ==
    IF /\ \A d \in 0..(k - 1) : i + d <= Len(s) /\ s[i + d] = "{"
       /\ j > i + k
    THEN [found |-> TRUE, lo |-> i + k, hi |-> j - 1,
          next |-> IF j + 1 <= Len(s) /\ s[j + 1] = "}" THEN j + 2 ELSE j + 1]
    ELSE NoGroup

\* One attempt of  \{{1,2}([^}]+)\}{1,2}  (and of  \{\{?\s*([^}]+)\s*\}?\} )
\* at index i with k opening braces: [^}]+ stops at the first "}".
GroupWith(s, i, k) == GroupUpTo(s, i, k, FirstRightBrace(s, i + k))

FirstFound(g, h) == IF g.found THEN g ELSE h

\* The match starting at index i: two opening braces are tried first
\* (greedy), one on backtracking.
GroupAt(s, i) == FirstFound(GroupWith(s, i, 2), GroupWith(s, i, 1))

\* The leftmost match starting at or after index i.
RECURSIVE NextGroup(_, _)
OrNextGroup(g, s, i) == IF g.found THEN g ELSE NextGroup(s, i + 1)
NextGroup(s, i) ==
    IF i > Len(s) THEN NoGroup ELSE OrNextGroup(GroupAt(s, i), s, i)

GroupContent(s, g) == SubSeq(s, g.lo, g.hi)

\* captures[1].trim().split_whitespace() has more than one word.
MultipleWordsIn(s, g) == g.found /\ WordCount(Trim(GroupContent(s, g))) > 1

\* braces.rs: only the first match is examined.
has_multiple_words_between_braces(s) == MultipleWordsIn(s, NextGroup(s, 1))

count_left_braces(s) == CountChar(s, "{")
count_right_braces(s) == CountChar(s, "}")
has_left_brace(s) == count_left_braces(s) > 0
has_right_brace(s) == count_right_braces(s) > 0
has_consecutive_left_braces(s) == Contains(s, <<"{", "{">>)
has_consecutive_right_braces(s) == Contains(s, <<"}", "}">>)

has_only_single_braces(s) ==
    /\ has_left_brace(s)
    /\ has_right_brace(s)
    /\ ~has_consecutive_left_braces(s)
    /\ ~has_consecutive_right_braces(s)

has_only_double_braces(s) ==
    /\ has_consecutive_left_braces(s)
    /\ has_consecutive_right_braces(s)
    /\ count_left_braces(s) % 2 = 0
    /\ count_right_braces(s) % 2 = 0

has_no_braces(s) == ~has_left_brace(s) /\ ~has_right_brace(s)

-----------------------------------------------------------------------------
(* Variable extraction (placeholder.rs).                                   *)

IdentStart == { "a", "b", "_" }
IdentRest == IdentStart \cup { "0" }

\* ^[a-zA-Z_][a-zA-Z0-9_]*$
is_valid_identifier(s) ==
    /\ s # <<>>
    /\ s[1] \in IdentStart
    /\ \A i \in 2..Len(s) : s[i] \in IdentRest

\* The loop of extract_variables over captures_iter: seen is unique_vars.
RECURSIVE ExtractFrom(_, _, _)

\* A loop body that pushes a name every time it is met.
ExtractEveryTime(s, g, var, seen) ==
    IF /\ is_valid_identifier(var)
       /\ ~has_multiple_words_between_braces(var)
    THEN <<var>> \o ExtractFrom(s, g.next, seen \cup {var})
    ELSE ExtractFrom(s, g.next, seen)

\* The body of the loop for the capture var of the match g.
ExtractVar(s, g, var, seen) ==
    IF /\ is_valid_identifier(var)
       /\ ~has_multiple_words_between_braces(var)
       /\ var \notin seen
    THEN <<var>> \o ExtractFrom(s, g.next, seen \cup {var})
    ELSE ExtractFrom(s, g.next, seen)

ExtractGroup(s, g, seen) ==
    IF ~g.found THEN <<>>
    ELSE ExtractVar(s, g, Trim(GroupContent(s, g)), seen)

ExtractFrom(s, i, seen) == ExtractGroup(s, NextGroup(s, i), seen)

extract_variables(s) == ExtractFrom(s, 1, {})

-----------------------------------------------------------------------------
(* Format detection (template_format.rs).                                  *)

is_plain_text(s) == has_no_braces(s)
is_mustache(s) == has_only_double_braces(s) /\ ~has_multiple_words_between_braces(s)
is_fmtstring(s) == has_only_single_braces(s) /\ ~has_multiple_words_between_braces(s)

is_valid_template(s) ==
    IF has_no_braces(s) THEN TRUE
    ELSE /\ count_left_braces(s) = count_right_braces(s)
         /\ (has_only_double_braces(s) \/ has_only_single_braces(s))

\* Ok, or the error kind.
validate_template(s) == IF is_valid_template(s) THEN "Ok" ELSE "MalformedTemplate"

\* The format, or the error kind.
detect_template(s) ==
    IF is_plain_text(s) THEN "PlainText"
    ELSE IF is_mustache(s) THEN "Mustache"
    ELSE IF is_fmtstring(s) THEN "FmtString"
    ELSE "UnsupportedFormat"

\* A merge in which a partial value is kept over the runtime one.
MergeKeepingPartials(partials, runtime) ==
    [k \in (DOMAIN partials) \cup (DOMAIN runtime) |->
        IF k \in DOMAIN partials THEN partials[k] ELSE runtime[k]]

\* partials.iter().chain(runtime_vars.iter()).collect()
merge_vars(partials, runtime) ==
    [k \in (DOMAIN partials) \cup (DOMAIN runtime) |->
        IF k \in DOMAIN runtime THEN runtime[k] ELSE partials[k]]

-----------------------------------------------------------------------------
(* The external Mustache engine (handlebars), as far as Template uses it.  *)

\* Index of the first "{{" / "}}" at or after i, or 0.
RECURSIVE FirstPair(_, _, _)
FirstPair(s, c, i) ==
    IF i + 1 > Len(s) THEN 0
    ELSE IF s[i] = c /\ s[i + 1] = c THEN i
    ELSE FirstPair(s, c, i + 1)

\* register_template_string: every "{{" opens a tag closed by the next "}}",
\* whose content is not blank and holds no brace.
RECURSIVE TagsParseFrom(_, _)

TagParses(s, open, close, content) ==
    /\ close # 0
    /\ Trim(content) # <<>>
    /\ CountChar(content, "{") = 0
    /\ CountChar(content, "}") = 0
    /\ TagsParseFrom(s, close + 2)

TagCloses(s, open, close) == TagParses(s, open, close, SubSeq(s, open + 2, close - 1))

TagOpens(s, open) == open = 0 \/ TagCloses(s, open, FirstPair(s, "}", open + 2))

TagsParseFrom(s, i) == TagOpens(s, FirstPair(s, "{", i))

HandlebarsRegisters(s) == TagsParseFrom(s, 1)

\* render: a tag naming a key of the data renders its value, any other
\* tag renders empty.
RECURSIVE RenderFrom(_, _, _)

RenderTag(s, i, data, open, name, rest) ==
    [ok |-> rest.ok,
     text |-> SubSeq(s, i, open - 1)
              \o (IF name \in DOMAIN data THEN data[name] ELSE <<>>)
              \o rest.text]

RenderClosed(s, i, data, open, close) ==
    IF close = 0 THEN [ok |-> TRUE, text |-> SubSeq(s, i, Len(s))]
    ELSE RenderTag(s, i, data, open, Trim(SubSeq(s, open + 2, close - 1)),
                   RenderFrom(s, close + 2, data))

RenderOpened(s, i, data, open) ==
    IF open = 0 THEN [ok |-> TRUE, text |-> SubSeq(s, i, Len(s))]
    ELSE RenderClosed(s, i, data, open, FirstPair(s, "}", open + 2))

RenderFrom(s, i, data) == RenderOpened(s, i, data, FirstPair(s, "{", i))

HandlebarsRender(s, data) == RenderFrom(s, 1, data)

-----------------------------------------------------------------------------
(* Template (template.rs).                                                 *)

NoTemplate ==
    [template |-> <<>>, template_format |-> "None", input_variables |-> <<>>,
     handlebars |-> FALSE, partials |-> EmptyMap]

\* The steps of Template::new after validate_template and detect_template
\* returned valid and format.
NewChecked(s, valid, format) ==
    IF valid # "Ok"
    THEN [kind |-> "MalformedTemplate", value |-> NoTemplate]
    ELSE IF format = "UnsupportedFormat"
    THEN [kind |-> "UnsupportedFormat", value |-> NoTemplate]
    ELSE IF format = "Mustache" /\ ~HandlebarsRegisters(s)
    THEN [kind |-> "MalformedTemplate", value |-> NoTemplate]
    ELSE [kind |-> "Ok",
          value |-> [template |-> s,
                     template_format |-> format,
                     input_variables |-> extract_variables(s),
                     handlebars |-> (format = "Mustache"),
                     partials |-> EmptyMap]]

\* Template::new: [kind |-> "Ok" or the error kind, value |-> the Template].
TemplateNew(s) == NewChecked(s, validate_template(s), detect_template(s))

\* Results of format: the text, or the error kind and the variable it names.
Ok(text) == [kind |-> "Ok", text |-> text, var |-> <<>>]
Err(kind, var) == [kind |-> kind, text |-> <<>>, var |-> var]
NoResult == [kind |-> "None", text |-> <<>>, var |-> <<>>]

\* validate_variables: the declared variables are examined in order.
RECURSIVE ValidateFrom(_, _, _)
ValidateFrom(ivs, i, m) ==
    IF i > Len(ivs) THEN Ok(<<>>)
    ELSE IF ivs[i] \notin DOMAIN m THEN Err("MissingVariable", ivs[i])
    ELSE ValidateFrom(ivs, i + 1, m)

\* A faulty validation: the declared variables are examined last to first.
RECURSIVE ValidateDownFrom(_, _, _)
ValidateDownFrom(ivs, i, m) ==
    IF i < 1 THEN Ok(<<>>)
    ELSE IF ivs[i] \notin DOMAIN m THEN Err("MissingVariable", ivs[i])
    ELSE ValidateDownFrom(ivs, i - 1, m)

ValidateLastMissing(t, m) == ValidateDownFrom(t.input_variables, Len(t.input_variables), m)

validate_variables(t, m) == ValidateFrom(t.input_variables, 1, m)

\* The literal format!("{{{}}}", var).
PlaceholderOf(var) == <<"{">> \o var \o <<"}">>

\* A substitution that takes the declared variables last to first.
RECURSIVE FmtBackFrom(_, _, _, _)
FmtBackFrom(result, ivs, i, m) ==
    IF i > Len(ivs) THEN Ok(result)
    ELSE IF ivs[Len(ivs) + 1 - i] \in DOMAIN m
         THEN FmtBackFrom(Replace(result, PlaceholderOf(ivs[Len(ivs) + 1 - i]),
                                  m[ivs[Len(ivs) + 1 - i]]), ivs, i + 1, m)
         ELSE Err("MissingVariable", ivs[Len(ivs) + 1 - i])

\* format_fmtstring: one whole-string replacement per declared variable.
RECURSIVE FmtFrom(_, _, _, _)
FmtFrom(result, ivs, i, m) ==
    IF i > Len(ivs) THEN Ok(result)
    ELSE IF ivs[i] \in DOMAIN m
         THEN FmtFrom(Replace(result, PlaceholderOf(ivs[i]), m[ivs[i]]), ivs, i + 1, m)
         ELSE Err("MissingVariable", ivs[i])

format_fmtstring(t, m) == FmtFrom(t.template, t.input_variables, 1, m)

Rendered(r) == IF r.ok THEN Ok(r.text) ELSE Err("RenderError", <<>>)

format_mustache(t, m) ==
    IF ~t.handlebars THEN Err("UnsupportedFormat", <<>>)
    ELSE Rendered(HandlebarsRender(t.template, m))

\* The match of format on template_format, after validate_variables
\* returned checked.
FormatChecked(t, merged, checked) ==
    IF checked.kind # "Ok" THEN checked
    ELSE IF t.template_format = "FmtString" THEN format_fmtstring(t, merged)
    ELSE IF t.template_format = "Mustache" THEN format_mustache(t, merged)
    ELSE Ok(t.template)

FormatMerged(t, merged) == FormatChecked(t, merged, validate_variables(t, merged))

\* Templatable::format
TemplateFormat(t, runtime) == FormatMerged(t, merge_vars(t.partials, runtime))

-----------------------------------------------------------------------------
(* Roles and concrete messages (role.rs; the message type is external).   *)

Roles == { "System", "Human", "Ai", "Tool", "Placeholder", "FewShotPrompt" }

NoMessage == [role |-> "none", content |-> <<>>]

\* A conversion that gives every role a message of the Human type.
ToMessageAnyRole(role, content) ==
    CASE role = "System" -> [ok |-> TRUE, msg |-> [role |-> "system", content |-> content]]
      [] role = "Ai"     -> [ok |-> TRUE, msg |-> [role |-> "ai", content |-> content]]
      [] OTHER           -> [ok |-> TRUE, msg |-> [role |-> "human", content |-> content]]

\* Role::to_message: [ok, msg]
to_message(role, content) ==
    CASE role = "System" -> [ok |-> TRUE, msg |-> [role |-> "system", content |-> content]]
      [] role = "Human"  -> [ok |-> TRUE, msg |-> [role |-> "human", content |-> content]]
      [] role = "Ai"     -> [ok |-> TRUE, msg |-> [role |-> "ai", content |-> content]]
      [] OTHER           -> [ok |-> FALSE, msg |-> NoMessage]

-----------------------------------------------------------------------------
(* MessagesPlaceholder (messages_placeholder.rs).                          *)

DEFAULT_LIMIT == 100

NoPlaceholder == [variable_name |-> <<>>, optional |-> FALSE, n_messages |-> 0]

with_options(variable_name, optional, n_messages) ==
    [variable_name |-> variable_name,
     optional |-> optional,
     n_messages |-> IF n_messages < 1 THEN DEFAULT_LIMIT ELSE n_messages]

MessagesPlaceholderNew(variable_name) ==
    with_options(variable_name, FALSE, DEFAULT_LIMIT)

\* placeholder.rs: [kind |-> "Ok" or the error kind, name]
\* A faulty check: any text declaring at least one variable is accepted.
FirstVariable(variables) ==
    IF Len(variables) >= 1
    THEN [kind |-> "Ok", name |-> variables[1]]
    ELSE [kind |-> "MalformedTemplate", name |-> <<>>]

SingleVariable(variables) ==
    IF Len(variables) = 1
    THEN [kind |-> "Ok", name |-> variables[1]]
    ELSE [kind |-> "MalformedTemplate", name |-> <<>>]

extract_placeholder_variable(s) == SingleVariable(extract_variables(s))

\* TryFrom<String> for MessagesPlaceholder: [kind, value]
PlaceholderNamed(v) ==
    IF v.kind = "Ok"
    THEN [kind |-> "Ok", value |-> MessagesPlaceholderNew(v.name)]
    ELSE [kind |-> v.kind, value |-> NoPlaceholder]

MessagesPlaceholderTryFrom(s) == PlaceholderNamed(extract_placeholder_variable(s))

-----------------------------------------------------------------------------
(* MessageLike (message_like.rs).                                          *)

NoEntry ==
    [type |-> "None", role |-> "none", msg |-> NoMessage,
     template |-> NoTemplate, placeholder |-> NoPlaceholder]

base_message(m) == [NoEntry EXCEPT !.type = "BaseMessage", !.msg = m]

role_prompt_template(role, t) ==
    [NoEntry EXCEPT !.type = "RolePromptTemplate", !.role = role, !.template = t]

placeholder(p) == [NoEntry EXCEPT !.type = "Placeholder", !.placeholder = p]

-----------------------------------------------------------------------------
(* Serialized message histories.  The texts "J1" and "J3" stand for the    *)
(* JSON arrays that serialize one and three messages; no other text of the *)
(* model is a JSON array.                                                  *)

HistoryTexts == { "J1", "J3" }

HistoryOf(c) ==
    IF c = "J1"
    THEN << [role |-> "human", content |-> <<"a">>] >>
    ELSE << [role |-> "human", content |-> <<"a">>],
            [role |-> "ai", content |-> <<"b">>],
            [role |-> "human", content |-> <<"b">>] >>

\* serde_json::from_str::<Vec<MessageEnum>>: [ok, msgs]; surrounding
\* whitespace is accepted.
ParseTrimmed(t) ==
    IF Len(t) = 1 /\ t[1] \in HistoryTexts
    THEN [ok |-> TRUE, msgs |-> HistoryOf(t[1])]
    ELSE [ok |-> FALSE, msgs |-> <<>>]

ParseHistory(s) == ParseTrimmed(Trim(s))

\* Iterator::take
Take(q, n) == SubSeq(q, 1, IF n < Len(q) THEN n ELSE Len(q))

-----------------------------------------------------------------------------
(* ChatTemplate (chat_template.rs).                                        *)

\* Results of a resolution: the messages, or the error kind and the
\* variable it names.
COk(msgs) == [kind |-> "Ok", msgs |-> msgs, var |-> <<>>]
CErr(kind, var) == [kind |-> kind, msgs |-> <<>>, var |-> var]
NoResolution == [kind |-> "None", msgs |-> <<>>, var |-> <<>>]

\* FewShotChatTemplate::try_from(text): a text of the model is neither a
\* JSON object nor a TOML document with an 'examples' field.
FewShotChatTemplateTryFrom(s) == "MalformedTemplate"

\* The Placeholder arm of from_messages, given the parsed placeholder.
PlaceholderEntry(p) ==
    IF p.kind = "Ok"
    THEN [kind |-> "Ok", entry |-> placeholder(p.value)]
    ELSE [kind |-> p.kind, entry |-> NoEntry]

\* The PlainText arm of from_messages, given the result of to_message.
MessageEntry(m) ==
    IF m.ok
    THEN [kind |-> "Ok", entry |-> base_message(m.msg)]
    ELSE [kind |-> "InvalidRoleError", entry |-> NoEntry]

\* A faulty default arm: a PlainText text is kept as a template too.
AlwaysRoleTemplate(role, text, t) ==
    IF t.kind # "Ok" THEN [kind |-> t.kind, entry |-> NoEntry]
    ELSE [kind |-> "Ok", entry |-> role_prompt_template(role, t.value)]

\* The default arm of from_messages, given the result of Template::new.
TemplateEntry(role, text, t) ==
    IF t.kind # "Ok" THEN [kind |-> t.kind, entry |-> NoEntry]
    ELSE IF t.value.template_format = "PlainText"
    THEN MessageEntry(to_message(role, text))
    ELSE [kind |-> "Ok", entry |-> role_prompt_template(role, t.value)]

\* One iteration of from_messages: [kind |-> "Ok" or the error kind, entry].
PairEntry(role, text) ==
    IF role = "Placeholder"
    THEN PlaceholderEntry(MessagesPlaceholderTryFrom(text))
    ELSE IF role = "FewShotPrompt"
    THEN [kind |-> FewShotChatTemplateTryFrom(text), entry |-> NoEntry]
    ELSE TemplateEntry(role, text, TemplateNew(text))

\* The loop of from_messages: [kind, messages]; the first error returns.
RECURSIVE FromPairs(_, _, _)

\* A faulty loop body: an invalid pair is skipped.
SkipInvalid(ps, i, result, e) ==
    IF e.kind # "Ok" THEN FromPairs(ps, i + 1, result)
    ELSE FromPairs(ps, i + 1, Append(result, e.entry))

PushEntry(ps, i, result, e) ==
    IF e.kind # "Ok" THEN [kind |-> e.kind, messages |-> <<>>]
    ELSE FromPairs(ps, i + 1, Append(result, e.entry))

FromPairs(ps, i, result) ==
    IF i > Len(ps) THEN [kind |-> "Ok", messages |-> result]
    ELSE PushEntry(ps, i, result, PairEntry(ps[i].role, ps[i].text))

from_messages(ps) == FromPairs(ps, 1, <<>>)

LimitMessages(parsed, n_messages) ==
    IF ~parsed.ok THEN CErr("MalformedTemplate", <<>>)
    ELSE IF n_messages > 0 THEN COk(Take(parsed.msgs, n_messages))
    ELSE COk(parsed.msgs)

deserialize_placeholder_messages(messages_str, n_messages) ==
    LimitMessages(ParseHistory(messages_str), n_messages)

\* The end of the RolePromptTemplate arm, given the result of to_message.
RoleMessage(m) ==
    IF ~m.ok THEN CErr("InvalidRoleError", <<>>) ELSE COk(<<m.msg>>)

\* The RolePromptTemplate arm, given the result of Template::format.
FormattedMessage(role, formatted) ==
    IF formatted.kind # "Ok" THEN CErr(formatted.kind, formatted.var)
    ELSE RoleMessage(to_message(role, formatted.text))

\* One iteration of format_messages: the messages of one entry.
EntryMessages(e, variables) ==
    IF e.type = "BaseMessage" THEN COk(<<e.msg>>)
    ELSE IF e.type = "RolePromptTemplate"
    THEN FormattedMessage(e.role, TemplateFormat(e.template, variables))
    ELSE IF e.placeholder.optional THEN COk(<<>>)
    ELSE IF e.placeholder.variable_name \notin DOMAIN variables
    THEN CErr("MissingVariable", e.placeholder.variable_name)
    ELSE deserialize_placeholder_messages(
             variables[e.placeholder.variable_name], e.placeholder.n_messages)

\* The loop of format_messages.
RECURSIVE FormatFrom(_, _, _, _)

\* A faulty loop body: the messages of an entry are put in front.
PrependResults(messages, i, variables, results, r) ==
    IF r.kind # "Ok" THEN r
    ELSE FormatFrom(messages, i + 1, variables, r.msgs \o results)

\* A faulty loop body: after a failure the later entries are still
\* resolved, and the error of the last failing one is returned.
LaterError(r, rest) == IF rest.kind # "Ok" THEN rest ELSE r
KeepLastError(messages, i, variables, results, r) ==
    IF r.kind # "Ok"
    THEN LaterError(r, FormatFrom(messages, i + 1, variables, results))
    ELSE FormatFrom(messages, i + 1, variables, results \o r.msgs)

ExtendResults(messages, i, variables, results, r) ==
    IF r.kind # "Ok" THEN r
    ELSE FormatFrom(messages, i + 1, variables, results \o r.msgs)

FormatFrom(messages, i, variables, results) ==
    IF i > Len(messages) THEN COk(results)
    ELSE ExtendResults(messages, i, variables, results,
                       EntryMessages(messages[i], variables))

format_messages(messages, variables) == FormatFrom(messages, 1, variables, <<>>)

\* Vec::extend: the elements of other are pushed one by one.
RECURSIVE ExtendFrom(_, _, _)
ExtendFrom(messages, other, i) ==
    IF i > Len(other) THEN messages
    ELSE ExtendFrom(Append(messages, other[i]), other, i + 1)

\* A faulty concatenation: the operands are swapped.
ChatAddSwapped(self, other) == ExtendFrom(other, self, 1)

\* impl Add for ChatTemplate
ChatAdd(self, other) == ExtendFrom(self, other, 1)

-----------------------------------------------------------------------------
(* The Template state machine.                                             *)

ChatIdle ==
    /\ pairs = <<>>
    /\ cphase = "idle"
    /\ chat = <<>>
    /\ chatErr = "none"
    /\ lastOp = "none"
    /\ opL = <<>>
    /\ opR = <<>>
    /\ resVars = EmptyMap
    /\ resolved = NoResolution

\* No MessagesPlaceholder is being obtained.
PlaceholderIdle ==
    /\ phIn = [name |-> <<>>, optional |-> FALSE, n |-> 0, text |-> <<>>, type |-> "none"]
    /\ phOp = "idle"
    /\ ph = [kind |-> "None", value |-> NoPlaceholder]

\* to_variables_map has not been called.
NoRoleMap == [done |-> FALSE, map |-> EmptyMap]

NoOption == [some |-> FALSE, value |-> NoTemplate]

NoFewShot ==
    [examples |-> [examples |-> <<>>, example_separator |-> <<>>,
                   prefix |-> NoOption, suffix |-> NoOption],
     example_prompt |-> <<>>]

\* No FewShotChatTemplate is being built.
FewShotIdle ==
    /\ fsIn = [examples |-> <<>>, prefix |-> <<>>, suffix |-> <<>>, separator |-> <<>>]
    /\ fsPhase = "idle"
    /\ fs = NoFewShot
    /\ fsOp = "none"
    /\ fsVars = EmptyMap
    /\ fsResult = NoResult

\* Role::to_message has not been called.
NoRoleCall ==
    [role |-> "none", content |-> <<>>, done |-> FALSE,
     result |-> [ok |-> FALSE, msg |-> NoMessage]]

ExtraIdle ==
    /\ PlaceholderIdle
    /\ roleMap = NoRoleMap
    /\ FewShotIdle
    /\ calls = <<>>
    /\ roleCall = NoRoleCall

Init ==
    /\ raw \in RawStrings
    /\ phase = "init"
    /\ tmpl = NoTemplate
    /\ newErr = "none"
    /\ lastVars = EmptyMap
    /\ fmtResult = NoResult
    /\ ChatIdle
    /\ ExtraIdle

\* The result r of Template::new is kept.
NewReturns(r) ==
    /\ phase' = IF r.kind = "Ok" THEN "built" ELSE "rejected"
    /\ tmpl' = r.value
    /\ newErr' = IF r.kind = "Ok" THEN "none" ELSE r.kind

\* Template::new(raw)
New ==
    /\ phase = "init"
    /\ NewReturns(TemplateNew(raw))
    /\ UNCHANGED <<raw, lastVars, fmtResult, cvars, xvars>>

\* An insert that keeps the value a name already has.
PartialKeepingFirst(name, value) ==
    /\ phase = "built"
    /\ tmpl' = [tmpl EXCEPT !.partials =
                   [k \in (DOMAIN tmpl.partials) \cup {name} |->
                       IF k \in DOMAIN tmpl.partials THEN tmpl.partials[k] ELSE value]]
    /\ lastVars' = EmptyMap
    /\ fmtResult' = NoResult
    /\ UNCHANGED <<raw, phase, newErr, cvars>>

\* self.partials.insert(var, value)
PartialCall(name, value) ==
    /\ phase = "built"
    /\ tmpl' = [tmpl EXCEPT !.partials =
                   [k \in (DOMAIN tmpl.partials) \cup {name} |->
                       IF k = name THEN value ELSE tmpl.partials[k]]]
    /\ lastVars' = EmptyMap
    /\ fmtResult' = NoResult
    /\ UNCHANGED <<raw, phase, newErr, cvars>>

\* Template::partial(name, value)
Partial(name, value) == PartialCall(name, value) /\ UNCHANGED xvars

\* self.partials.clear()
ClearCall ==
    /\ phase = "built"
    /\ tmpl' = [tmpl EXCEPT !.partials = EmptyMap]
    /\ lastVars' = EmptyMap
    /\ fmtResult' = NoResult
    /\ UNCHANGED <<raw, phase, newErr, cvars>>

\* Template::clear_partials()
ClearPartials == ClearCall /\ UNCHANGED xvars

\* A format that uses up the partial values.
FormatDroppingPartials(runtime) ==
    /\ phase = "built"
    /\ lastVars' = runtime
    /\ fmtResult' = TemplateFormat(tmpl, runtime)
    /\ tmpl' = [tmpl EXCEPT !.partials = EmptyMap]
    /\ UNCHANGED <<raw, phase, newErr, cvars, xvars>>

\* Template::format(runtime)
Format(runtime) ==
    /\ phase = "built"
    /\ lastVars' = runtime
    /\ fmtResult' = TemplateFormat(tmpl, runtime)
    /\ UNCHANGED <<raw, phase, tmpl, newErr, cvars, xvars>>

Next ==
    \/ New
    \/ \E name \in VarNames, value \in PartialValues : Partial(name, value)
    \/ ClearPartials
    \/ \E runtime \in VarMaps : Format(runtime)

Spec == Init /\ [][Next]_vars

-----------------------------------------------------------------------------
(* The ChatTemplate state machine.                                         *)

\* Longest list handed to from_messages.
MaxPairs == 2

\* Longest ChatTemplate that push and + build.
MaxEntries == MaxPairs

PairTexts ==
    { <<"a">>,
      <<"{", "a", "}">>,
      <<"{", "{", "a", "}", "}">>,
      <<"{", "a", "}", "{", "b", "}">>,
      <<"{", "a">> }

PairPool == [role : Roles, text : PairTexts]
PairLists == UNION { [1..k -> PairPool] : k \in 0..MaxPairs }

\* Maps of a resolution: a may hold a plain text or a serialized history.
ChatVarMaps ==
    { m \in MapsOver(VarNames, { <<"b">>, <<"J1">>, <<"J3">> }) :
        <<"b">> \in DOMAIN m => m[<<"b">>] = <<"b">> }

\* The limits asked of with_options.
LimitChoices == { 0, 2 }

\* The other operands of a concatenation.
OtherChats ==
    { <<>>,
      from_messages(<< [role |-> "Human", text |-> <<"{", "a", "}">>] >>).messages,
      from_messages(<< [role |-> "System", text |-> <<"a">>],
                       [role |-> "Placeholder", text |-> <<"{", "a", "}">>] >>).messages }

TemplateIdle ==
    /\ raw = <<>>
    /\ phase = "idle"
    /\ tmpl = NoTemplate
    /\ newErr = "none"
    /\ lastVars = EmptyMap
    /\ fmtResult = NoResult

InitChat ==
    /\ TemplateIdle
    /\ ExtraIdle
    /\ pairs \in PairLists
    /\ cphase = "init"
    /\ chat = <<>>
    /\ chatErr = "none"
    /\ lastOp = "none"
    /\ opL = <<>>
    /\ opR = <<>>
    /\ resVars = EmptyMap
    /\ resolved = NoResolution

\* The result r of from_messages is kept.
FromMessagesReturns(r) ==
    /\ cphase' = IF r.kind = "Ok" THEN "built" ELSE "failed"
    /\ chat' = r.messages
    /\ chatErr' = IF r.kind = "Ok" THEN "none" ELSE r.kind

\* ChatTemplate::from_messages(pairs)
FromMessages ==
    /\ cphase = "init"
    /\ FromMessagesReturns(from_messages(pairs))
    /\ lastOp' = "from_messages"
    /\ UNCHANGED <<tvars, xvars, pairs, opL, opR, resVars, resolved>>

\* chat.messages.push(MessageLike::placeholder(
\*     MessagesPlaceholder::with_options(name, optional, n)))
PushPlaceholder(name, optional, n) ==
    /\ cphase = "built"
    /\ Len(chat) < MaxEntries
    /\ chat' = Append(chat, placeholder(with_options(name, optional, n)))
    /\ lastOp' = "push"
    /\ opL' = <<>>
    /\ opR' = <<>>
    /\ resVars' = EmptyMap
    /\ resolved' = NoResolution
    /\ UNCHANGED <<tvars, xvars, pairs, cphase, chatErr>>

\* chat + other, or other + chat
Concat(other, onLeft) ==
    /\ cphase = "built"
    /\ Len(chat) + Len(other) <= MaxEntries
    /\ opL' = IF onLeft THEN other ELSE chat
    /\ opR' = IF onLeft THEN chat ELSE other
    /\ chat' = IF onLeft THEN ChatAdd(other, chat) ELSE ChatAdd(chat, other)
    /\ lastOp' = "add"
    /\ resVars' = EmptyMap
    /\ resolved' = NoResolution
    /\ UNCHANGED <<tvars, xvars, pairs, cphase, chatErr>>

\* ChatTemplate::invoke(variables) / format_messages(variables)
FormatMessages(variables) ==
    /\ cphase = "built"
    /\ resVars' = variables
    /\ resolved' = format_messages(chat, variables)
    /\ lastOp' = "format"
    /\ opL' = <<>>
    /\ opR' = <<>>
    /\ UNCHANGED <<tvars, xvars, pairs, cphase, chat, chatErr>>

NextChat ==
    \/ FromMessages
    \/ \E name \in { <<"a">> }, optional \in BOOLEAN, n \in LimitChoices :
          PushPlaceholder(name, optional, n)
    \/ \E other \in OtherChats, onLeft \in BOOLEAN : Concat(other, onLeft)
    \/ \E variables \in ChatVarMaps : FormatMessages(variables)

SpecChat == InitChat /\ [][NextChat]_vars

-----------------------------------------------------------------------------
(* Vocabulary of the claims about Template.                                *)

Declared == { tmpl.input_variables[i] : i \in DOMAIN tmpl.input_variables }
Supplied == (DOMAIN lastVars) \cup (DOMAIN tmpl.partials)
SuppliedValue(v) == IF v \in DOMAIN lastVars THEN lastVars[v] ELSE tmpl.partials[v]
Formatted == phase = "built" /\ fmtResult.kind # "None"
Constructed == phase # "init"

BraceFree(s) == \A i \in 1..Len(s) : s[i] \notin { "{", "}" }
IsBrace(c) == c \in { "{", "}" }

\* The braces of s, read left to right, go { } { } ... { }.
BracesAlternate(s) ==
    LET b == SelectSeq(s, IsBrace)
    IN  /\ Len(b) % 2 = 0
        /\ \A k \in 1..Len(b) : b[k] = IF k % 2 = 1 THEN "{" ELSE "}"

NoDeclaredLiteralLeft ==
    \A v \in Declared : ~Contains(fmtResult.text, <<"{">> \o v \o <<"}">>)

C2_FirstMissingReported ==
    (Formatted /\ ~(Declared \subseteq Supplied)) =>
        /\ fmtResult.kind = "MissingVariable"
        /\ fmtResult.text = <<>>
        /\ \E i \in DOMAIN tmpl.input_variables :
              /\ fmtResult.var = tmpl.input_variables[i]
              /\ tmpl.input_variables[i] \notin Supplied
              /\ \A j \in 1..(i - 1) : tmpl.input_variables[j] \in Supplied

\* A Mustache template declaring two variables was formatted with neither
\* supplied, and the failure names a variable.
C2_Witness ==
    /\ Formatted
    /\ tmpl.template_format = "Mustache"
    /\ Len(tmpl.input_variables) = 2
    /\ Declared \cap Supplied = {}
    /\ fmtResult.kind = "MissingVariable"

\* Some "{" stands alone and some "{" is doubled, or the same for "}".
LoneBrace(s, c) ==
    \E i \in 1..Len(s) :
        /\ s[i] = c
        /\ (i = 1 \/ s[i - 1] # c)
        /\ (i = Len(s) \/ s[i + 1] # c)
MixesSingleAndDouble(s) ==
    \/ LoneBrace(s, "{") /\ Contains(s, <<"{", "{">>)
    \/ LoneBrace(s, "}") /\ Contains(s, <<"}", "}">>)

\* C3 as stated: Template::new rejects with MalformedTemplate every text
\* whose "{" and "}" counts differ and every text that mixes single-brace
\* with double-brace delimiters.
C3_Original ==
    ( /\ Constructed
      /\ \/ CountChar(raw, "{") # CountChar(raw, "}")
         \/ MixesSingleAndDouble(raw) )
    => newErr = "MalformedTemplate"

-----------------------------------------------------------------------------
(* Vocabulary of the claims about ChatTemplate.                            *)

\* A resolution of the present chat with resVars has returned.
Resolved == cphase = "built" /\ resolved.kind # "None"

\* from_messages(pairs) has returned.
FromMessagesDone == cphase \in { "built", "failed" }

\* The chat is still the one from_messages returned.
FreshlyBuilt == cphase = "built" /\ lastOp \in { "from_messages", "format" } /\ Len(chat) = Len(pairs)

ValidPair(p) == PairEntry(p.role, p.text).kind = "Ok"
ErrOfPair(p) == PairEntry(p.role, p.text).kind
InvalidIndexes == { i \in DOMAIN pairs : ~ValidPair(pairs[i]) }
LowestInvalid == CHOOSE i \in InvalidIndexes : \A j \in InvalidIndexes : i <= j

\* The resolution of the first n entries of the chat.
PrefixResolution(n) == format_messages(SubSeq(chat, 1, n), resVars)

\* What entry i adds to the resolution of the entries before it.
Contribution(i) ==
    SubSeq(PrefixResolution(i).msgs,
           Len(PrefixResolution(i - 1).msgs) + 1,
           Len(PrefixResolution(i).msgs))

PlaceholderIndexes == { i \in DOMAIN chat : chat[i].type = "Placeholder" }
Bound(i) == chat[i].placeholder.variable_name \in DOMAIN resVars
BoundValue(i) == resVars[chat[i].placeholder.variable_name]

\* The messages deserialized from the value bound to placeholder i.
Deserialized(i) ==
    deserialize_placeholder_messages(BoundValue(i), chat[i].placeholder.n_messages)

\* C4 as stated: in a successful resolution a placeholder whose variable is
\* bound to a serialized history contributes the messages deserialized from
\* it, optional or not, and an optional placeholder contributes no message
\* only when its variable is absent.
C4_Original ==
    (Resolved /\ resolved.kind = "Ok") =>
        \A i \in PlaceholderIndexes :
            /\ (Bound(i) /\ Deserialized(i).kind = "Ok")
                  => Contribution(i) = Deserialized(i).msgs
            /\ (chat[i].placeholder.optional /\ Contribution(i) = <<>>)
                  => ~Bound(i)

\* C5 as stated: when the entries before a placeholder resolve, a required
\* placeholder whose variable is absent fails the call with MissingVariable
\* naming it, and a placeholder bound to a value that is no serialized
\* history fails the call with MalformedTemplate.
C5_Original ==
    Resolved =>
        \A i \in PlaceholderIndexes :
            PrefixResolution(i - 1).kind = "Ok" =>
                /\ (~chat[i].placeholder.optional /\ ~Bound(i))
                      => /\ resolved.kind = "MissingVariable"
                         /\ resolved.var = chat[i].placeholder.variable_name
                /\ (Bound(i) /\ Deserialized(i).kind # "Ok")
                      => resolved.kind = "MalformedTemplate"

\* What the entry e contributes by itself.
EntryAlone(e) ==
    IF e.type = "BaseMessage" THEN <<e.msg>>
    ELSE IF e.type = "RolePromptTemplate"
    THEN << to_message(e.role, TemplateFormat(e.template, resVars).text).msg >>
    ELSE format_messages(<<e>>, resVars).msgs

RECURSIVE InOrder(_)
InOrder(n) == IF n = 0 THEN <<>> ELSE InOrder(n - 1) \o EntryAlone(chat[n])

\* C6: a successful resolution returns the concatenation, in entry order, of
\* what each entry contributes: a concrete message itself, a role template
\* one message with its role and its formatted text, a placeholder its own
\* expansion.
C6_ResolutionConcatenatesInOrder ==
    (Resolved /\ resolved.kind = "Ok") => resolved.msgs = InOrder(Len(chat))

\* A placeholder followed by a role template resolved to the three messages
\* of a history followed by the message of the template.
C6_Witness ==
    /\ Resolved
    /\ resolved.kind = "Ok"
    /\ Len(chat) = 2
    /\ chat[1].type = "Placeholder"
    /\ chat[2].type = "RolePromptTemplate"
    /\ Len(resolved.msgs) = 4
    /\ resolved.msgs[4].content = TemplateFormat(chat[2].template, resVars).text

\* C7: from_messages returns a ChatTemplate only when every pair is valid,
\* and otherwise returns no ChatTemplate and the error of the invalid pair
\* of lowest index.
C7_AllOrNothing ==
    FromMessagesDone =>
        IF InvalidIndexes = {}
        THEN cphase = "built" /\ chatErr = "none"
        ELSE /\ cphase = "failed"
             /\ chat = <<>>
             /\ chatErr = ErrOfPair(pairs[LowestInvalid])

\* from_messages failed on two invalid pairs that fail differently.
C7_Witness ==
    /\ cphase = "failed"
    /\ Len(pairs) = 2
    /\ InvalidIndexes = { 1, 2 }
    /\ ErrOfPair(pairs[1]) # ErrOfPair(pairs[2])

\* The message type that System, Human and Ai build.
MessageRole(role) ==
    CASE role = "System" -> "system"
      [] role = "Human"  -> "human"
      [] role = "Ai"     -> "ai"
      [] OTHER           -> "none"

\* C8: the ChatTemplate from_messages returns holds one entry per pair, in
\* order; for System, Human and Ai a PlainText text is a concrete message
\* of the role with the text as content, and a FmtString or Mustache text is
\* a role template holding the role and the Template of the text.
C8_OneEntryPerPair ==
    (cphase = "built" /\ lastOp = "from_messages") =>
        /\ Len(chat) = Len(pairs)
        /\ \A i \in DOMAIN pairs :
              pairs[i].role \in { "System", "Human", "Ai" } =>
                 /\ detect_template(pairs[i].text) = "PlainText" =>
                       /\ chat[i].type = "BaseMessage"
                       /\ chat[i].msg = [role |-> MessageRole(pairs[i].role),
                                         content |-> pairs[i].text]
                 /\ detect_template(pairs[i].text) \in { "FmtString", "Mustache" } =>
                       /\ chat[i].type = "RolePromptTemplate"
                       /\ chat[i].role = pairs[i].role
                       /\ chat[i].template.template = pairs[i].text
                       /\ chat[i].template.template_format = detect_template(pairs[i].text)

\* from_messages returned a concrete message followed by a role template.
C8_Witness ==
    /\ cphase = "built"
    /\ lastOp = "from_messages"
    /\ Len(pairs) = 2
    /\ chat[1].type = "BaseMessage"
    /\ chat[2].type = "RolePromptTemplate"
    /\ chat[2].template.template_format = "Mustache"

PlaceholderPairs ==
    { i \in DOMAIN pairs :
        /\ pairs[i].role = "Placeholder"
        /\ \A j \in 1..(i - 1) : ValidPair(pairs[j]) }

\* C9: a Placeholder pair reached by from_messages is accepted when its text
\* declares exactly one variable and refused with MalformedTemplate when it
\* declares none or several; the accepted entry is a placeholder of that
\* variable, not optional, with limit 100.
C9_PlaceholderNeedsOneVariable ==
    FromMessagesDone =>
        \A i \in PlaceholderPairs :
            IF Len(extract_variables(pairs[i].text)) = 1
            THEN /\ ValidPair(pairs[i])
                 /\ cphase = "failed" => LowestInvalid > i
                 /\ FreshlyBuilt =>
                       /\ chat[i].type = "Placeholder"
                       /\ chat[i].placeholder =
                             [variable_name |-> extract_variables(pairs[i].text)[1],
                              optional |-> FALSE,
                              n_messages |-> 100]
            ELSE /\ cphase = "failed"
                 /\ chatErr = "MalformedTemplate"

\* from_messages accepted a Placeholder pair.
C9_Witness ==
    /\ cphase = "built"
    /\ lastOp = "from_messages"
    /\ Len(pairs) = 2
    /\ pairs[2].role = "Placeholder"
    /\ chat[2].placeholder.n_messages = 100

\* C10: left + right holds the entries of left followed by the entries of
\* right, each in its order, and the empty ChatTemplate is an identity on
\* both sides.
C10_AddConcatenates ==
    lastOp = "add" =>
        /\ Len(chat) = Len(opL) + Len(opR)
        /\ \A i \in DOMAIN opL : chat[i] = opL[i]
        /\ \A i \in DOMAIN opR : chat[Len(opL) + i] = opR[i]
        /\ opL = <<>> => chat = opR
        /\ opR = <<>> => chat = opL

\* Two different ChatTemplates, neither empty, were concatenated.
C10_Witness ==
    /\ lastOp = "add"
    /\ opL # <<>>
    /\ opR # <<>>
    /\ opL # opR

-----------------------------------------------------------------------------
(* The ways of obtaining a MessagesPlaceholder.                            *)

\* #[derive(Deserialize)] for MessagesPlaceholder: the three fields of the
\* JSON object are stored as they are.
DeserializePlaceholder(variable_name, optional, n_messages) ==
    [kind |-> "Ok",
     value |-> [variable_name |-> variable_name,
                optional |-> optional,
                n_messages |-> n_messages]]

\* The end of the Placeholder arm of MessageLike::try_from.
PlaceholderPayload(d) ==
    IF d.kind = "Ok"
    THEN [kind |-> "Ok", entry |-> placeholder(d.value)]
    ELSE [kind |-> "MalformedTemplate", entry |-> NoEntry]

\* TryFrom<String> for MessageLike, on a JSON object whose "type" is type
\* and whose "value" is a serialized MessagesPlaceholder.
MessageLikeTryFrom(type, variable_name, optional, n_messages) ==
    IF type = "Placeholder"
    THEN PlaceholderPayload(DeserializePlaceholder(variable_name, optional, n_messages))
    ELSE [kind |-> "MalformedTemplate", entry |-> NoEntry]

\* The limits a caller or a JSON text supplies.
SuppliedLimits == { 0, 1, 2, DEFAULT_LIMIT }

PlaceholderInputs ==
    [name : VarNames, optional : BOOLEAN, n : SuppliedLimits,
     text : PairTexts, type : { "Placeholder", "Unknown" }]

InitPlaceholder ==
    /\ TemplateIdle
    /\ ChatIdle
    /\ phIn \in PlaceholderInputs
    /\ phOp = "init"
    /\ ph = [kind |-> "None", value |-> NoPlaceholder]
    /\ roleMap = NoRoleMap
    /\ FewShotIdle
    /\ calls = <<>>
    /\ roleCall = NoRoleCall

\* MessagesPlaceholder::new(name)
PlaceholderNew ==
    /\ phOp = "init"
    /\ phOp' = "new"
    /\ ph' = [kind |-> "Ok", value |-> MessagesPlaceholderNew(phIn.name)]
    /\ UNCHANGED <<tvars, cvars, phIn, roleMap, fvars, calls, roleCall>>

\* MessagesPlaceholder::with_options(name, optional, n)
PlaceholderWithOptions ==
    /\ phOp = "init"
    /\ phOp' = "with_options"
    /\ ph' = [kind |-> "Ok", value |-> with_options(phIn.name, phIn.optional, phIn.n)]
    /\ UNCHANGED <<tvars, cvars, phIn, roleMap, fvars, calls, roleCall>>

\* MessagesPlaceholder::try_from(text)
PlaceholderTryFrom ==
    /\ phOp = "init"
    /\ phOp' = "try_from"
    /\ ph' = MessagesPlaceholderTryFrom(phIn.text)
    /\ UNCHANGED <<tvars, cvars, phIn, roleMap, fvars, calls, roleCall>>

\* serde_json::from_str::<MessagesPlaceholder>(json)
PlaceholderDeserialize ==
    /\ phOp = "init"
    /\ phOp' = "deserialize"
    /\ ph' = DeserializePlaceholder(phIn.name, phIn.optional, phIn.n)
    /\ UNCHANGED <<tvars, cvars, phIn, roleMap, fvars, calls, roleCall>>

\* The result r of MessageLike::try_from is kept.
MessageLikeReturns(r) ==
    ph' = [kind |-> r.kind, value |-> r.entry.placeholder]

\* MessageLike::try_from(json)
PlaceholderFromMessageLike ==
    /\ phOp = "init"
    /\ phOp' = "message_like"
    /\ MessageLikeReturns(MessageLikeTryFrom(phIn.type, phIn.name, phIn.optional, phIn.n))
    /\ UNCHANGED <<tvars, cvars, phIn, roleMap, fvars, calls, roleCall>>

NextPlaceholder ==
    \/ PlaceholderNew
    \/ PlaceholderWithOptions
    \/ PlaceholderTryFrom
    \/ PlaceholderDeserialize
    \/ PlaceholderFromMessageLike

SpecPlaceholder == InitPlaceholder /\ [][NextPlaceholder]_vars

\* A MessagesPlaceholder has been obtained.
Obtained == phOp \notin { "idle", "init" } /\ ph.kind = "Ok"

\* The operations that take the limit from their caller or from the JSON.
LimitSupplied == phOp \in { "with_options", "deserialize", "message_like" }

\* C11 as stated: every MessagesPlaceholder obtained by new, with_options,
\* try_from or deserialization has a limit of at least 1, and a supplied
\* limit of 0 becomes the default.
C11_Original ==
    Obtained =>
        /\ ph.value.n_messages >= 1
        /\ (LimitSupplied /\ phIn.n = 0) => ph.value.n_messages = DEFAULT_LIMIT

-----------------------------------------------------------------------------
(* ChatTemplate::to_variables_map (chat_template.rs).                      *)

\* Role::as_str
as_str(role) ==
    CASE role = "System"      -> "system"
      [] role = "Human"       -> "human"
      [] role = "Ai"          -> "ai"
      [] role = "Tool"        -> "tool"
      [] role = "Placeholder" -> "placeholder"

\* A faulty insertion: a key already present keeps its role.
InsertIfAbsent(variables, extracted_vars, role_str) ==
    IF extracted_vars = <<>> THEN variables
    ELSE [k \in (DOMAIN variables) \cup { extracted_vars[1] } |->
             IF k \in DOMAIN variables THEN variables[k] ELSE role_str]

\* if let Some(var) = extracted_vars.first() { variables.insert(var, role_str) }
InsertFirst(variables, extracted_vars, role_str) ==
    IF extracted_vars = <<>> THEN variables
    ELSE [k \in (DOMAIN variables) \cup { extracted_vars[1] } |->
             IF k = extracted_vars[1] THEN role_str ELSE variables[k]]

\* One iteration of to_variables_map.
EntryVariables(variables, e) ==
    IF e.type = "RolePromptTemplate"
    THEN InsertFirst(variables, extract_variables(e.template.template), as_str(e.role))
    ELSE IF e.type = "BaseMessage"
    THEN InsertFirst(variables, extract_variables(e.msg.content), e.msg.role)
    ELSE variables

\* The loop of to_variables_map.
RECURSIVE VariablesFrom(_, _, _)
VariablesFrom(messages, i, variables) ==
    IF i > Len(messages) THEN variables
    ELSE VariablesFrom(messages, i + 1, EntryVariables(variables, messages[i]))

to_variables_map(messages) == VariablesFrom(messages, 1, EmptyMap)

InitVariablesMap ==
    /\ TemplateIdle
    /\ PlaceholderIdle
    /\ pairs \in PairLists
    /\ cphase = "init"
    /\ chat = <<>>
    /\ chatErr = "none"
    /\ lastOp = "none"
    /\ opL = <<>>
    /\ opR = <<>>
    /\ resVars = EmptyMap
    /\ resolved = NoResolution
    /\ roleMap = NoRoleMap
    /\ FewShotIdle
    /\ calls = <<>>
    /\ roleCall = NoRoleCall

\* chat.to_variables_map()
ToVariablesMap ==
    /\ cphase = "built"
    /\ ~roleMap.done
    /\ roleMap' = [done |-> TRUE, map |-> to_variables_map(chat)]
    /\ UNCHANGED <<tvars, cvars, pvars, fvars, calls, roleCall>>

NextVariablesMap ==
    \/ FromMessages
    \/ ToVariablesMap

SpecVariablesMap == InitVariablesMap /\ [][NextVariablesMap]_vars

\* The role templates of the chat whose first declared variable is v.
RoleTemplatesOf(v) ==
    { i \in DOMAIN chat :
        /\ chat[i].type = "RolePromptTemplate"
        /\ chat[i].template.input_variables # <<>>
        /\ chat[i].template.input_variables[1] = v }

LastOf(S) == CHOOSE i \in S : \A j \in S : j <= i

\* C12: for a ChatTemplate built by from_messages, to_variables_map has the
\* key v exactly when some role template has v as its first declared
\* variable, and maps it to the role name of the last such entry; other
\* variables and other entries add nothing.
C12_LastRoleOfFirstVariable ==
    roleMap.done =>
        /\ DOMAIN roleMap.map = { v \in VarNames : RoleTemplatesOf(v) # {} }
        /\ \A v \in DOMAIN roleMap.map :
              roleMap.map[v] = as_str(chat[LastOf(RoleTemplatesOf(v))].role)

\* Two role templates of different roles share their first variable, and
\* one of them declares a second variable.
C12_Witness ==
    /\ roleMap.done
    /\ Len(chat) = 2
    /\ RoleTemplatesOf(<<"a">>) = { 1, 2 }
    /\ chat[1].role # chat[2].role
    /\ Len(chat[1].template.input_variables) = 2
    /\ roleMap.map = [v \in { <<"a">> } |-> as_str(chat[2].role)]

-----------------------------------------------------------------------------
(* FewShotTemplate (few_shot_template.rs) and FewShotChatTemplate          *)
(* (few_shot_chat_template.rs).                                            *)

DEFAULT_EXAMPLE_SEPARATOR == << "\n", "\n" >>

\* [String]::join
RECURSIVE Join(_, _)
Join(parts, sep) ==
    IF parts = <<>> THEN <<>>
    ELSE IF Len(parts) = 1 THEN parts[1]
    ELSE parts[1] \o sep \o Join(Tail(parts), sep)

\* FewShotTemplate::with_options
FewShotWithOptions(examples, prefix, suffix, example_separator) ==
    [examples |-> examples,
     example_separator |-> example_separator,
     prefix |-> prefix,
     suffix |-> suffix]

\* FewShotChatTemplate::new
FewShotChatTemplateNew(examples, example_prompt) ==
    [examples |-> examples, example_prompt |-> example_prompt]

\* if let Some(ref t) = option { t.format(variables)? } else { String::new() }
OptionFormat(option, variables) ==
    IF option.some THEN TemplateFormat(option.value, variables) ELSE Ok(<<>>)

\* The loop over the examples: [kind, var, parts].
RECURSIVE ExamplesFrom(_, _, _, _)

\* A faulty loop body: an example that fails to format is left out.
SkipFailedExample(examples, i, variables, parts, formatted) ==
    IF formatted.kind # "Ok"
    THEN ExamplesFrom(examples, i + 1, variables, parts)
    ELSE ExamplesFrom(examples, i + 1, variables, Append(parts, formatted.text))

PushExample(examples, i, variables, parts, formatted) ==
    IF formatted.kind # "Ok"
    THEN [kind |-> formatted.kind, var |-> formatted.var, parts |-> <<>>]
    ELSE ExamplesFrom(examples, i + 1, variables, Append(parts, formatted.text))

ExamplesFrom(examples, i, variables, parts) ==
    IF i > Len(examples) THEN [kind |-> "Ok", var |-> <<>>, parts |-> parts]
    ELSE PushExample(examples, i, variables, parts,
                     TemplateFormat(examples[i], variables))

IsNotEmpty(part) == part # <<>>

\* A faulty end: the three segments are joined whether empty or not.
JoinAllSegments(sep, prefix_str, examples_str, suffix) ==
    IF suffix.kind # "Ok" THEN suffix
    ELSE Ok(Join(<<prefix_str, examples_str, suffix.text>>, sep))

\* The end of format, given the formatted suffix: result_parts and its join.
JoinSegments(sep, prefix_str, examples_str, suffix) ==
    IF suffix.kind # "Ok" THEN suffix
    ELSE Ok(Join(SelectSeq(<<prefix_str, examples_str, suffix.text>>, IsNotEmpty), sep))

\* format after the loop over the examples returned formatted.
AfterExamples(t, variables, prefix_str, formatted) ==
    IF formatted.kind # "Ok" THEN Err(formatted.kind, formatted.var)
    ELSE JoinSegments(t.example_separator, prefix_str,
                      Join(formatted.parts, t.example_separator),
                      OptionFormat(t.suffix, variables))

\* format after the prefix was formatted.
AfterPrefix(t, variables, prefix) ==
    IF prefix.kind # "Ok" THEN prefix
    ELSE AfterExamples(t, variables, prefix.text,
                       ExamplesFrom(t.examples, 1, variables, <<>>))

\* Formattable::format for FewShotTemplate<Template>
FewShotTemplateFormat(t, variables) ==
    AfterPrefix(t, variables, OptionFormat(t.prefix, variables))

\* A faulty end: no separator follows the block.
BlockAlone(examples) ==
    IF examples.kind # "Ok" THEN examples
    ELSE Ok(examples.text)

\* The end of FewShotChatTemplate::format, given the formatted block.
BlockWithSeparator(examples) ==
    IF examples.kind # "Ok" THEN examples
    ELSE IF examples.text = <<>> THEN Ok(<<>>)
    ELSE Ok(examples.text \o << "\n", "\n" >>)

\* Formattable::format for FewShotChatTemplate
FewShotChatTemplateFormat(t, variables) ==
    BlockWithSeparator(FewShotTemplateFormat(t.examples, variables))

\* The role names of a variables map as texts: a role name is one symbol.
RoleTexts(m) == [k \in DOMAIN m |-> << m[k] >>]

\* A faulty format_examples: no variable is supplied.
FormatExamplesWithoutMap(t) == FewShotChatTemplateFormat(t, EmptyMap)

\* FewShotChatTemplate::format_examples
format_examples(t) ==
    FewShotChatTemplateFormat(t, RoleTexts(to_variables_map(t.example_prompt)))

-----------------------------------------------------------------------------
(* The few-shot state machine.                                             *)

\* Longest list of examples.
MaxExamples == 2

ExampleTexts == { <<"a">>, <<"{", "a", "}">>, <<"{", "b", "}">> }
ExampleLists == UNION { [1..k -> ExampleTexts] : k \in 0..MaxExamples }

\* A prefix or suffix: none, a plain text, or a text declaring b.
OptionTexts ==
    { [some |-> FALSE, text |-> <<>>],
      [some |-> TRUE, text |-> <<"a">>],
      [some |-> TRUE, text |-> <<"{", "b", "}">>] }

Separators == { DEFAULT_EXAMPLE_SEPARATOR, <<"-">> }

FewShotInputs ==
    [examples : ExampleLists, prefix : OptionTexts, suffix : OptionTexts,
     separator : Separators]

\* The example prompts.
PromptChoices ==
    { <<>>,
      << [role |-> "Human", text |-> <<"{", "a", "}">>] >>,
      << [role |-> "Human", text |-> <<"{", "a", "}">>],
         [role |-> "Ai", text |-> <<"{", "b", "}">>] >>,
      << [role |-> "Ai", text |-> <<"{", "b", "}", "{", "a", "}">>],
         [role |-> "Placeholder", text |-> <<"{", "a", "}">>] >> }

\* The maps handed to format: a value may be the empty string.
FewShotVarMaps == MapsOver(VarNames, { <<>>, <<"b">> })

InitFewShot ==
    /\ TemplateIdle
    /\ PlaceholderIdle
    /\ roleMap = NoRoleMap
    /\ pairs \in PromptChoices
    /\ cphase = "init"
    /\ chat = <<>>
    /\ chatErr = "none"
    /\ lastOp = "none"
    /\ opL = <<>>
    /\ opR = <<>>
    /\ resVars = EmptyMap
    /\ resolved = NoResolution
    /\ fsIn \in FewShotInputs
    /\ fsPhase = "init"
    /\ fs = NoFewShot
    /\ fsOp = "none"
    /\ fsVars = EmptyMap
    /\ fsResult = NoResult
    /\ calls = <<>>
    /\ roleCall = NoRoleCall

\* Template::new(text).unwrap() for each text
TemplatesOf(texts) == [i \in DOMAIN texts |-> TemplateNew(texts[i]).value]

\* Some(Template::new(text).unwrap()), or None
OptionOf(o) ==
    IF o.some THEN [some |-> TRUE, value |-> TemplateNew(o.text).value] ELSE NoOption

\* FewShotChatTemplate::new(FewShotTemplate::with_options(..), chat)
FewShotBuild ==
    /\ fsPhase = "init"
    /\ cphase = "built"
    /\ fsPhase' = "built"
    /\ fs' = FewShotChatTemplateNew(
                 FewShotWithOptions(TemplatesOf(fsIn.examples), OptionOf(fsIn.prefix),
                                    OptionOf(fsIn.suffix), fsIn.separator),
                 chat)
    /\ UNCHANGED <<tvars, cvars, pvars, roleMap, calls, roleCall, fsIn, fsOp, fsVars, fsResult>>

\* fs.examples.format(variables)
FewShotFormat(variables) ==
    /\ fsPhase = "built"
    /\ fsOp' = "format"
    /\ fsVars' = variables
    /\ fsResult' = FewShotTemplateFormat(fs.examples, variables)
    /\ UNCHANGED <<tvars, cvars, pvars, roleMap, calls, roleCall, fsIn, fsPhase, fs>>

\* fs.format(variables)
FewShotChatFormat(variables) ==
    /\ fsPhase = "built"
    /\ fsOp' = "chat_format"
    /\ fsVars' = variables
    /\ fsResult' = FewShotChatTemplateFormat(fs, variables)
    /\ UNCHANGED <<tvars, cvars, pvars, roleMap, calls, roleCall, fsIn, fsPhase, fs>>

\* fs.format_examples()
FormatExamples ==
    /\ fsPhase = "built"
    /\ fsOp' = "format_examples"
    /\ fsVars' = EmptyMap
    /\ fsResult' = format_examples(fs)
    /\ UNCHANGED <<tvars, cvars, pvars, roleMap, calls, roleCall, fsIn, fsPhase, fs>>

NextFewShot ==
    \/ FromMessages
    \/ FewShotBuild
    \/ \E variables \in FewShotVarMaps : FewShotFormat(variables)
    \/ \E variables \in FewShotVarMaps : FewShotChatFormat(variables)
    \/ FormatExamples

SpecFewShot == InitFewShot /\ [][NextFewShot]_vars

-----------------------------------------------------------------------------
(* Vocabulary of the claims about few-shot templates.                      *)

FewShot == fs.examples
Separator == FewShot.example_separator

\* The parts of the FewShotTemplate: prefix, examples, suffix.
Parts ==
    (IF FewShot.prefix.some THEN << FewShot.prefix.value >> ELSE <<>>)
    \o FewShot.examples
    \o (IF FewShot.suffix.some THEN << FewShot.suffix.value >> ELSE <<>>)

\* Some part declares a variable that m does not hold.
SomePartMisses(m) ==
    \E i \in DOMAIN Parts :
        \E j \in DOMAIN Parts[i].input_variables :
            Parts[i].input_variables[j] \notin DOMAIN m

\* The three segments under the map m, each formatted by itself.
PrefixSegment(m) ==
    IF FewShot.prefix.some THEN TemplateFormat(FewShot.prefix.value, m).text ELSE <<>>
SuffixSegment(m) ==
    IF FewShot.suffix.some THEN TemplateFormat(FewShot.suffix.value, m).text ELSE <<>>
RECURSIVE ExamplesSegment(_, _)
ExamplesSegment(n, m) ==
    IF n = 0 THEN <<>>
    ELSE IF n = 1 THEN TemplateFormat(FewShot.examples[1], m).text
    ELSE ExamplesSegment(n - 1, m) \o Separator
         \o TemplateFormat(FewShot.examples[n], m).text

\* The segments with one separator between two neighbouring non-empty ones.
ExpectedBlock(m) ==
    LET P == PrefixSegment(m)
        E == ExamplesSegment(Len(FewShot.examples), m)
        S == SuffixSegment(m)
    IN  P \o (IF P # <<>> /\ (E # <<>> \/ S # <<>>) THEN Separator ELSE <<>>)
          \o E \o (IF E # <<>> /\ S # <<>> THEN Separator ELSE <<>>)
          \o S

\* C13: a successful FewShotTemplate.format returns the non-empty segments
\* among prefix, examples joined by the separator, and suffix, joined by
\* the separator: an empty or absent segment adds no text and no separator.
C13_JoinsNonEmptySegments ==
    (fsOp = "format" /\ fsResult.kind = "Ok") => fsResult.text = ExpectedBlock(fsVars)

\* A prefix that formats to the empty string, two examples and a suffix
\* were formatted.
C13_Witness ==
    /\ fsOp = "format"
    /\ fsResult.kind = "Ok"
    /\ FewShot.prefix.some
    /\ PrefixSegment(fsVars) = <<>>
    /\ Len(FewShot.examples) = 2
    /\ SuffixSegment(fsVars) # <<>>
    /\ Separator # DEFAULT_EXAMPLE_SEPARATOR

\* C14: FewShotTemplate.format fails with MissingVariable and returns no
\* text whenever the prefix, an example or the suffix declares a variable
\* that the map does not hold.
C14_MissingVariableFailsAll ==
    (fsOp = "format" /\ SomePartMisses(fsVars)) =>
        /\ fsResult.kind = "MissingVariable"
        /\ fsResult.text = <<>>

\* The second of two examples misses its variable, the first is formatted.
C14_Witness ==
    /\ fsOp = "format"
    /\ Len(FewShot.examples) = 2
    /\ ~FewShot.suffix.some
    /\ TemplateFormat(FewShot.examples[1], fsVars).kind = "Ok"
    /\ FewShot.examples[1].input_variables # <<>>
    /\ TemplateFormat(FewShot.examples[2], fsVars).kind = "MissingVariable"
    /\ fsResult.kind = "MissingVariable"

\* The map that format_examples supplies.
PromptMap == RoleTexts(to_variables_map(fs.example_prompt))

\* C15: format_examples returns what format returns for the variables map
\* of the example prompt: each variable is rendered as the role name it is
\* mapped to, and the call fails with MissingVariable when a part declares a
\* variable that is no key of the map.
C15_FormatExamplesUsesPromptMap ==
    fsOp = "format_examples" =>
        /\ fsResult = FewShotChatTemplateFormat(fs, PromptMap)
        /\ SomePartMisses(PromptMap) => fsResult.kind = "MissingVariable"
        /\ ~SomePartMisses(PromptMap) =>
              /\ fsResult.kind = "Ok"
              /\ fsResult.text # <<>> =>
                    fsResult.text = ExpectedBlock(PromptMap) \o << "\n", "\n" >>

\* Two examples were rendered with the role names of a two-entry prompt.
C15_Witness ==
    /\ fsOp = "format_examples"
    /\ fsResult.kind = "Ok"
    /\ Len(FewShot.examples) = 2
    /\ FewShot.examples[1].input_variables = << <<"a">> >>
    /\ FewShot.examples[2].input_variables = << <<"b">> >>
    /\ Separator = <<"-">>
    /\ ~FewShot.prefix.some /\ ~FewShot.suffix.some
    /\ fsResult.text = << "human", "-", "ai", "\n", "\n" >>

\* FewShotChatTemplate.format or format_examples has returned a text.
ChatFormatted == fsOp \in { "chat_format", "format_examples" } /\ fsResult.kind = "Ok"

\* The map of the last few-shot operation.
UsedMap == IF fsOp = "format_examples" THEN PromptMap ELSE fsVars

\* C16 as stated: a non-empty block is followed by one separator equal to
\* the configured example separator.
C16_Original ==
    (ChatFormatted /\ ExpectedBlock(UsedMap) # <<>>) =>
        fsResult.text = ExpectedBlock(UsedMap) \o Separator

\* C16 amended: a non-empty block is followed by exactly the two line
\* feeds "\n\n", whatever example separator is configured.
C16_BlockThenTwoLineFeeds ==
    (ChatFormatted /\ ExpectedBlock(UsedMap) # <<>>) =>
        fsResult.text = ExpectedBlock(UsedMap) \o << "\n", "\n" >>

\* A block using a custom separator between two examples was returned.
C16_Witness ==
    /\ fsOp = "chat_format"
    /\ fsResult.kind = "Ok"
    /\ Separator = <<"-">>
    /\ Len(FewShot.examples) = 2
    /\ ExpectedBlock(fsVars) # <<>>

\* C17 as stated: with no example, format and format_examples return the
\* empty string, whether or not a prefix or a suffix is configured.
C17_Original ==
    (fsOp \in { "chat_format", "format_examples" } /\ FewShot.examples = <<>>) =>
        fsResult = Ok(<<>>)

-----------------------------------------------------------------------------
(* Partial and runtime variables of Template::format.                      *)

\* The template without its partial values.
WithoutPartials == [tmpl EXCEPT !.partials = EmptyMap]

\* The value format is said to use for key k.
UsedValue(k) ==
    IF k \in DOMAIN lastVars THEN lastVars[k] ELSE tmpl.partials[k]

\* The map format is said to use: its keys are those of either map.
UsedVariables ==
    [k \in (DOMAIN tmpl.partials) \cup (DOMAIN lastVars) |-> UsedValue(k)]

\* C18: format with partial values P and runtime map R gives what the
\* template without partials gives on the map whose keys are those of P or
\* R and whose value for a key is R's when R has the key, P's otherwise.
C18_RuntimeValueWins ==
    Formatted => fmtResult = TemplateFormat(WithoutPartials, UsedVariables)

\* A runtime empty string replaced the partial value of a declared variable.
C18_Witness ==
    /\ Formatted
    /\ tmpl.template_format = "FmtString"
    /\ <<"a">> \in Declared
    /\ <<"a">> \in DOMAIN tmpl.partials
    /\ tmpl.partials[<<"a">>] = <<"a">>
    /\ <<"a">> \in DOMAIN lastVars
    /\ lastVars[<<"a">>] = <<>>
    /\ <<"b">> \in DOMAIN tmpl.partials
    /\ <<"b">> \notin DOMAIN lastVars
    /\ fmtResult.kind = "Ok"

-----------------------------------------------------------------------------
(* A Template, or a ChatTemplate, with the calls made on it.               *)

\* Most partial and clear_partials calls recorded.
MaxCalls == 3

\* The texts of the Template: two FmtString variables, a Mustache variable,
\* a plain text.
CallRaws ==
    { <<"{", "a", "}", "{", "b", "}">>,
      <<"{", "{", "a", "}", "}">>,
      <<"a">> }

\* Either a Template is about to be built, or a ChatTemplate.
InitCalls ==
    /\ \/ /\ raw \in CallRaws
          /\ phase = "init"
          /\ tmpl = NoTemplate
          /\ newErr = "none"
          /\ lastVars = EmptyMap
          /\ fmtResult = NoResult
          /\ ChatIdle
       \/ /\ TemplateIdle
          /\ pairs \in PromptChoices
          /\ cphase = "init"
          /\ chat = <<>>
          /\ chatErr = "none"
          /\ lastOp = "none"
          /\ opL = <<>>
          /\ opR = <<>>
          /\ resVars = EmptyMap
          /\ resolved = NoResolution
    /\ ExtraIdle

\* template.partial(name, value), recorded
PartialLogged(name, value) ==
    /\ Len(calls) < MaxCalls
    /\ PartialCall(name, value)
    /\ calls' = Append(calls, [op |-> "partial", name |-> name, value |-> value])
    /\ UNCHANGED <<pvars, roleMap, fvars, roleCall>>

\* template.clear_partials(), recorded
ClearLogged ==
    /\ Len(calls) < MaxCalls
    /\ ClearCall
    /\ calls' = Append(calls, [op |-> "clear", name |-> <<>>, value |-> <<>>])
    /\ UNCHANGED <<pvars, roleMap, fvars, roleCall>>

NextCalls ==
    \/ New
    \/ \E name \in VarNames, value \in PartialValues : PartialLogged(name, value)
    \/ ClearLogged
    \/ \E runtime \in VarMaps : Format(runtime)
    \/ FromMessages
    \/ \E variables \in ChatVarMaps : FormatMessages(variables)

SpecCalls == InitCalls /\ [][NextCalls]_vars

\* Template::partial_vars()
partial_vars(t) == t.partials

-----------------------------------------------------------------------------
(* Partial values after a sequence of partial and clear_partials calls.    *)

\* Position of the most recent clear_partials call, 0 when there is none.
LastClear ==
    IF \E i \in DOMAIN calls : calls[i].op = "clear"
    THEN CHOOSE i \in DOMAIN calls :
            /\ calls[i].op = "clear"
            /\ \A j \in DOMAIN calls : calls[j].op = "clear" => j <= i
    ELSE 0

\* Positions of the partial calls for name n since the most recent clear.
SetsSinceClear(n) ==
    { i \in DOMAIN calls : i > LastClear /\ calls[i].op = "partial" /\ calls[i].name = n }

\* The names set since the most recent clear.
NamesSinceClear == { n \in VarNames : SetsSinceClear(n) # {} }

\* The names set before the most recent clear and not since.
ClearedNames ==
    { n \in VarNames \ NamesSinceClear :
        \E i \in DOMAIN calls : i < LastClear /\ calls[i].op = "partial" /\ calls[i].name = n }

\* The value of the latest partial call for n since the most recent clear.
LatestValue(n) ==
    calls[CHOOSE i \in SetsSinceClear(n) : \A j \in SetsSinceClear(n) : j <= i].value

\* C19: after any sequence of partial and clear_partials calls,
\* partial_vars() is the map of the latest value of each name set since the
\* most recent clear (empty right after a clear); the raw text, the format
\* and the declared variables are those of construction; and a declared
\* variable whose value was cleared, absent from the runtime map, makes
\* format fail with MissingVariable.
C19_PartialsAreLatestSinceClear ==
    phase = "built" =>
        /\ partial_vars(tmpl) = [n \in NamesSinceClear |-> LatestValue(n)]
        /\ (LastClear = Len(calls) /\ calls # <<>>) => partial_vars(tmpl) = EmptyMap
        /\ tmpl.template = TemplateNew(raw).value.template
        /\ tmpl.template_format = TemplateNew(raw).value.template_format
        /\ tmpl.input_variables = TemplateNew(raw).value.input_variables
        /\ \A n \in ClearedNames \cap Declared :
              (Formatted /\ n \notin DOMAIN lastVars) =>
                  fmtResult.kind = "MissingVariable"

\* A value set for a declared variable was cleared, and format then failed
\* for want of it.
C19_Witness ==
    /\ phase = "built"
    /\ Len(calls) = 2
    /\ calls[1].op = "partial"
    /\ calls[1].name = <<"a">>
    /\ calls[2].op = "clear"
    /\ <<"a">> \in Declared
    /\ Formatted
    /\ <<"a">> \notin DOMAIN lastVars
    /\ fmtResult.kind = "MissingVariable"

-----------------------------------------------------------------------------
(* Template::format and ChatTemplate resolution leave the object alone.    *)

\* This step is a call of Template::format.
FormatStep ==
    /\ fmtResult'.kind # "None"
    /\ <<lastVars, fmtResult>>' # <<lastVars, fmtResult>>

\* This step is a resolution of the ChatTemplate.
ResolutionStep ==
    /\ resolved'.kind # "None"
    /\ <<resVars, resolved>>' # <<resVars, resolved>>

-----------------------------------------------------------------------------
(* Templates whose brace groups hold padded, multi-word or invalid names.  *)

\* Longest raw text of this family, counted in pieces.
MaxGroups == 2

\* The pieces: groups with a name, a padded name, two words, a content that
\* is no identifier, a blank content; loose braces, a letter, a blank.
GroupPieces ==
    { <<"{", "a", "}">>, <<"{", "b", "}">>,
      <<"{", " ", "a", " ", "}">>,
      <<"{", "b", " ", "a", "}">>,
      <<"{", "0", "a", "}">>,
      <<"{", " ", "}">>,
      <<"{", "{", "a", "}", "}">>,
      <<"{", "{", "b", " ", "a", "}", "}">>,
      <<"{">>, <<"}">>, <<"a">>, <<" ">> }

RECURSIVE GroupStringsUpTo(_)
GroupStringsUpTo(n) ==
    IF n = 0 THEN { <<>> }
    ELSE LET prev == GroupStringsUpTo(n - 1)
         IN  prev \cup { p \o t : p \in GroupPieces, t \in prev }

GroupStrings == GroupStringsUpTo(MaxGroups)

InitGroups ==
    /\ raw \in GroupStrings
    /\ phase = "init"
    /\ tmpl = NoTemplate
    /\ newErr = "none"
    /\ lastVars = EmptyMap
    /\ fmtResult = NoResult
    /\ ChatIdle
    /\ ExtraIdle

NextGroups ==
    \/ New
    \/ \E runtime \in VarMaps : Format(runtime)

SpecGroups == InitGroups /\ [][NextGroups]_vars

-----------------------------------------------------------------------------
(* Multi-word brace groups.                                                *)

\* No brace between the indices i and j, both excluded.
NoBraceBetween(s, i, j) ==
    \A k \in (i + 1)..(j - 1) : s[k] # "{" /\ s[k] # "}"

\* The brace groups of s: an opening brace at i, a closing one at j, no
\* brace between them.
BraceGroups(s) ==
    { g \in (1..Len(s)) \X (1..Len(s)) :
        /\ g[1] < g[2]
        /\ s[g[1]] = "{"
        /\ s[g[2]] = "}"
        /\ NoBraceBetween(s, g[1], g[2]) }

\* The content of the brace group g of s.
ContentOf(s, g) == SubSeq(s, g[1] + 1, g[2] - 1)

\* The braces of s are well formed: every brace belongs to a group that is
\* opened and closed by one brace, or by two.
WellFormedBraces(s) ==
    \A k \in 1..Len(s) :
        s[k] \in { "{", "}" } =>
            \E g \in BraceGroups(s) :
                \/ k \in { g[1], g[2] }
                       /\ (g[1] = 1 \/ s[g[1] - 1] # "{")
                       /\ (g[2] = Len(s) \/ s[g[2] + 1] # "}")
                \/ k \in { g[1] - 1, g[2] + 1 }
                       /\ g[1] > 1 /\ s[g[1] - 1] = "{"
                       /\ g[2] < Len(s) /\ s[g[2] + 1] = "}"
                       /\ (g[1] = 2 \/ s[g[1] - 2] # "{")
                       /\ (g[2] + 1 = Len(s) \/ s[g[2] + 2] # "}")
                \/ k \in { g[1], g[2] }
                       /\ g[1] > 1 /\ s[g[1] - 1] = "{"
                       /\ g[2] < Len(s) /\ s[g[2] + 1] = "}"
                       /\ (g[1] = 2 \/ s[g[1] - 2] # "{")
                       /\ (g[2] + 1 = Len(s) \/ s[g[2] + 2] # "}")

\* Some brace group of s holds more than one whitespace-separated token.
SomeGroupMultiWord(s) ==
    \E g \in BraceGroups(s) : WordCount(Trim(ContentOf(s, g))) > 1

\* C21 as stated: on a text with well-formed braces,
\* has_multiple_words_between_braces is true iff some brace group, the
\* first or a later one, holds more than one token, and Template::new then
\* rejects the text with UnsupportedFormat.
C21_Original ==
    (phase # "init" /\ WellFormedBraces(raw)) =>
        /\ has_multiple_words_between_braces(raw) <=> SomeGroupMultiWord(raw)
        /\ SomeGroupMultiWord(raw) =>
              (phase = "rejected" /\ newErr = "UnsupportedFormat")

-----------------------------------------------------------------------------
(* The variables extract_variables declares.                               *)

\* re.captures_iter(template): the matches, leftmost first, none overlapping.
RECURSIVE MatchesFrom(_, _)
MatchesAfter(g, s) ==
    IF g.found THEN <<g>> \o MatchesFrom(s, g.next) ELSE <<>>
MatchesFrom(s, i) == MatchesAfter(NextGroup(s, i), s)

\* The trimmed content of the match g of s.
TrimmedContent(s, g) == Trim(GroupContent(s, g))

\* The matches of ms whose trimmed content is the name v.
MatchesNamed(s, ms, v) == { k \in DOMAIN ms : TrimmedContent(s, ms[k]) = v }

\* The first match of ms whose trimmed content is the name v.
FirstNamed(s, ms, v) ==
    CHOOSE k \in MatchesNamed(s, ms, v) : \A j \in MatchesNamed(s, ms, v) : k <= j

\* The list vs is what the claim says of the text s, whose single- or
\* double-brace groups are ms.
DeclaresAsSaid(s, vs, ms) ==
    /\ \A i, j \in DOMAIN vs : vs[i] = vs[j] => i = j
    /\ \A i \in DOMAIN vs :
          /\ is_valid_identifier(vs[i])
          /\ MatchesNamed(s, ms, vs[i]) # {}
          /\ \E g \in BraceGroups(s) : Trim(ContentOf(s, g)) = vs[i]
    /\ \A i, j \in DOMAIN vs :
          i < j => FirstNamed(s, ms, vs[i]) < FirstNamed(s, ms, vs[j])
    /\ \A k \in DOMAIN ms :
          \/ TrimmedContent(s, ms[k]) = <<>>
          \/ WordCount(TrimmedContent(s, ms[k])) > 1
          \/ ~is_valid_identifier(TrimmedContent(s, ms[k]))
          => \A i \in DOMAIN vs : vs[i] # TrimmedContent(s, ms[k])
    /\ has_no_braces(s) => vs = <<>>

\* C22: extract_variables returns a list without duplicates of valid
\* identifiers, each the trimmed content of a single- or double-brace
\* group of the text, ordered by first occurrence; a group whose trimmed
\* content is empty, multi-word or no identifier contributes nothing; a
\* PlainText template declares nothing; a built Template declares this list.
C22_DeclaredVariables ==
    phase # "init" =>
        /\ DeclaresAsSaid(raw, extract_variables(raw), MatchesFrom(raw, 1))
        /\ phase = "built" =>
              /\ tmpl.input_variables = extract_variables(raw)
              /\ tmpl.template_format = "PlainText" => tmpl.input_variables = <<>>

\* A padded group and a plain group of the same name declare it once.
C22_Witness ==
    /\ phase = "built"
    /\ raw = <<"{", " ", "a", " ", "}", "{", "a", "}">>
    /\ tmpl.input_variables = << <<"a">> >>

-----------------------------------------------------------------------------
(* Role::to_message on its own.                                            *)

InitRole ==
    /\ TemplateIdle
    /\ ChatIdle
    /\ PlaceholderIdle
    /\ roleMap = NoRoleMap
    /\ FewShotIdle
    /\ calls = <<>>
    /\ roleCall \in [role : Roles, content : RawStrings, done : { FALSE },
                      result : { NoRoleCall.result }]

\* role.to_message(content)
ToMessage ==
    /\ ~roleCall.done
    /\ roleCall' = [roleCall EXCEPT !.done = TRUE,
                                    !.result = to_message(roleCall.role, roleCall.content)]
    /\ UNCHANGED <<tvars, cvars, pvars, roleMap, fvars, calls>>

NextRole == ToMessage

SpecRole == InitRole /\ [][NextRole]_vars

\* The message type of the roles that have one.
MessageType(role) ==
    CASE role = "System" -> "system"
      [] role = "Human"  -> "human"
      [] role = "Ai"     -> "ai"

\* C23: to_message succeeds exactly for System, Human and Ai, with a
\* message of the matching type whose content is the given content, the
\* empty string included; for every other role it fails with
\* InvalidRoleError.
C23_ToMessageByRole ==
    roleCall.done =>
        IF roleCall.role \in { "System", "Human", "Ai" }
        THEN /\ roleCall.result.ok
             /\ roleCall.result.msg.role = MessageType(roleCall.role)
             /\ roleCall.result.msg.content = roleCall.content
        ELSE /\ ~roleCall.result.ok
             /\ RoleMessage(roleCall.result).kind = "InvalidRoleError"

\* An Ai message with the empty content was produced.
C23_Witness ==
    /\ roleCall.done
    /\ roleCall.role = "Ai"
    /\ roleCall.content = <<>>
    /\ roleCall.result = [ok |-> TRUE, msg |-> [role |-> "ai", content |-> <<>>]]

-----------------------------------------------------------------------------
(* FmtString substitution is sequential, in declaration order.             *)

\* The value val once the placeholders of the variables declared from
\* position j on have been replaced in it, one variable after the other.
RECURSIVE LaterReplaced(_, _, _, _)
LaterReplaced(val, ivs, j, m) ==
    IF j > Len(ivs) THEN val
    ELSE LaterReplaced(Replace(val, PlaceholderOf(ivs[j]), m[ivs[j]]), ivs, j + 1, m)

\* What the placeholder of the k-th declared variable becomes in the
\* output: its value, in which the placeholders of later-declared
\* variables are replaced and those of earlier-declared ones are not.
FinalValue(ivs, k, m) == LaterReplaced(m[ivs[k]], ivs, k + 1, m)

\* The declared variables whose placeholder stands at index i of s.
StandingAt(s, i, ivs) == { k \in DOMAIN ivs : OccursAt(s, PlaceholderOf(ivs[k]), i) }

\* One pass over s from index i: a placeholder of a declared variable
\* becomes its final value, any other character is kept.
RECURSIVE OnePass(_, _, _, _)
OnePassAt(s, i, ivs, m, ks) ==
    IF ks = {} THEN <<s[i]>> \o OnePass(s, i + 1, ivs, m)
    ELSE FinalValue(ivs, CHOOSE k \in ks : TRUE, m)
            \o OnePass(s, i + Len(ivs[CHOOSE k \in ks : TRUE]) + 2, ivs, m)
OnePass(s, i, ivs, m) ==
    IF i > Len(s) THEN <<>> ELSE OnePassAt(s, i, ivs, m, StandingAt(s, i, ivs))

\* C24: a FmtString template is formatted by substituting the declared
\* variables one at a time in declaration order over the whole current
\* string: a literal {w} inside the value of an earlier-declared variable
\* is replaced by the value of the later-declared w, and a literal {u}
\* inside the value of a later-declared variable is left as it is.
C24_SequentialSubstitution ==
    (Formatted /\ tmpl.template_format = "FmtString" /\ fmtResult.kind = "Ok") =>
        fmtResult.text = OnePass(tmpl.template, 1, tmpl.input_variables, UsedVariables)

\* The value of the first declared variable held the placeholder of the
\* second one, which the output no longer shows.
C24_Witness ==
    /\ Formatted
    /\ tmpl.template = <<"{", "a", "}", "{", "b", "}">>
    /\ tmpl.input_variables = << <<"a">>, <<"b">> >>
    /\ tmpl.partials = EmptyMap
    /\ lastVars = [k \in VarNames |-> IF k = <<"a">> THEN <<"{", "b", "}">> ELSE <<"b">>]
    /\ fmtResult = Ok(<<"b", "b">>)

\* The value of the second declared variable held the placeholder of the
\* first one, which the output still shows.
LaterValueKept ==
    /\ Formatted
    /\ tmpl.template = <<"{", "b", "}", "{", "a", "}">>
    /\ tmpl.input_variables = << <<"b">>, <<"a">> >>
    /\ tmpl.partials = EmptyMap
    /\ lastVars = [k \in VarNames |-> IF k = <<"a">> THEN <<"{", "b", "}">> ELSE <<"b">>]
    /\ fmtResult = Ok(<<"b", "{", "b", "}">>)

-----------------------------------------------------------------------------
(* The limit of a placeholder.                                             *)

\* The first limit messages of the history h, or all of h when it holds at
\* most limit messages.
FirstMessages(h, limit) == IF Len(h) > limit THEN SubSeq(h, 1, limit) ELSE h

\* The history bound to placeholder i.
BoundHistory(i) == ParseHistory(BoundValue(i))

\* Placeholder i emits its history cut to its limit.
EmitsLimited(i) ==
    Contribution(i) = FirstMessages(BoundHistory(i).msgs, chat[i].placeholder.n_messages)

\* C25 as stated: in a successful resolution a placeholder whose variable
\* is bound to a history emits the first limit messages of the history, in
\* order, when the history holds more than limit messages, and the whole
\* history when it holds at most limit messages.
C25_Original ==
    (Resolved /\ resolved.kind = "Ok") =>
        \A i \in PlaceholderIndexes :
            (Bound(i) /\ BoundHistory(i).ok) => EmitsLimited(i)

\* The same for the placeholders that are not optional.
RequiredPlaceholderEmitsLimited ==
    (Resolved /\ resolved.kind = "Ok") =>
        \A i \in PlaceholderIndexes :
            (~chat[i].placeholder.optional /\ Bound(i) /\ BoundHistory(i).ok)
                => EmitsLimited(i)

\* A required placeholder of limit 2 emitted the first two of three messages.
RequiredPlaceholderCut ==
    /\ Resolved
    /\ resolved.kind = "Ok"
    /\ Len(chat) = 1
    /\ chat[1].type = "Placeholder"
    /\ ~chat[1].placeholder.optional
    /\ chat[1].placeholder.n_messages = 2
    /\ resolved.msgs = SubSeq(HistoryOf("J3"), 1, 2)

-----------------------------------------------------------------------------
(* The error of a resolution.                                              *)

\* The resolution of entry i taken alone.
AloneResult(i) == format_messages(<< chat[i] >>, resVars)

\* The entries that fail for the map of the resolution.
FailingIndexes == { i \in DOMAIN chat : AloneResult(i).kind # "Ok" }

LowestFailing == CHOOSE i \in FailingIndexes : \A j \in FailingIndexes : i <= j

\* C26: when one entry or several fail for the map, the resolution returns
\* the error of the failing entry of lowest index and no message, whatever
\* the later entries do; when none fails it succeeds.
C26_FirstFailingEntryDecides ==
    Resolved =>
        IF FailingIndexes = {}
        THEN resolved.kind = "Ok"
        ELSE /\ resolved.kind = AloneResult(LowestFailing).kind
             /\ resolved.var = AloneResult(LowestFailing).var
             /\ resolved.msgs = <<>>

\* Two entries fail with different errors; the error is that of the first.
C26_Witness ==
    /\ Resolved
    /\ Len(chat) = 2
    /\ FailingIndexes = { 1, 2 }
    /\ AloneResult(1).kind # AloneResult(2).kind
    /\ resolved = AloneResult(1)
    /\ resolved.msgs = <<>>

-----------------------------------------------------------------------------
(* Misordered single braces.                                               *)

\* The opening braces of the first n characters of s, less the closing ones.
OpenAfter(s, n) ==
    CountChar(SubSeq(s, 1, n), "{") - CountChar(SubSeq(s, 1, n), "}")

\* The braces of s pair up in order: no "}" comes before the "{" it
\* closes, and every "{" is closed by a later "}".
PairUpInOrder(s) ==
    /\ \A n \in 0..Len(s) : OpenAfter(s, n) >= 0
    /\ OpenAfter(s, Len(s)) = 0

\* C27 as stated: a text accepted as FmtString has braces that pair up in
\* order, and a text of single braces in equal numbers that do not pair up
\* in order is rejected with MalformedTemplate.
C27_Original ==
    phase # "init" =>
        /\ (phase = "built" /\ tmpl.template_format = "FmtString")
              => PairUpInOrder(raw)
        /\ ( /\ has_only_single_braces(raw)
             /\ count_left_braces(raw) = count_right_braces(raw)
             /\ ~PairUpInOrder(raw) )
              => (phase = "rejected" /\ newErr = "MalformedTemplate")

-----------------------------------------------------------------------------
(* The roles of the RoleTemplate entries.                                  *)

RoleTemplateIndexes == { i \in DOMAIN chat : chat[i].type = "RolePromptTemplate" }

\* The Tool pairs whose text Template::new accepts and whose earlier pairs
\* are all valid.
ToolPairs ==
    { i \in DOMAIN pairs :
        /\ pairs[i].role = "Tool"
        /\ TemplateNew(pairs[i].text).kind = "Ok"
        /\ \A j \in 1..(i - 1) : ValidPair(pairs[j]) }

\* C28 as stated: every RoleTemplate entry of a ChatTemplate returned by
\* from_messages has the role System, Human or Ai; from_messages rejects
\* with InvalidRoleError a Tool pair whose text is plain or a FmtString or
\* Mustache template; and the resolution of the ChatTemplate returned
\* never fails with InvalidRoleError.
C28_Original ==
    /\ FreshlyBuilt =>
          /\ \A i \in RoleTemplateIndexes : chat[i].role \in { "System", "Human", "Ai" }
          /\ Resolved => resolved.kind # "InvalidRoleError"
    /\ (FromMessagesDone /\ ToolPairs # {}) =>
          (cphase = "failed" /\ chatErr = "InvalidRoleError")

\* The same for the Tool pairs whose text is plain.
PlainToolPairRejected ==
    FromMessagesDone =>
        \A i \in ToolPairs :
            TemplateNew(pairs[i].text).value.template_format = "PlainText"
                => (cphase = "failed" /\ chatErr = "InvalidRoleError")

-----------------------------------------------------------------------------
(* The brace groups a FmtString format replaces.                           *)

\* No brace in the text s.
HoldsNoBrace(s) == \A i \in DOMAIN s : s[i] \notin { "{", "}" }

\* The text s from index i on, in which every single-brace group whose
\* trimmed content is a key of m is replaced by the value of that key.
RECURSIVE GroupsReplacedFrom(_, _, _)
GroupReplaced(s, i, m, g) ==
    IF ~g.found THEN SubSeq(s, i, Len(s))
    ELSE SubSeq(s, i, g.lo - 2)
            \o (IF TrimmedContent(s, g) \in DOMAIN m
                THEN m[TrimmedContent(s, g)]
                ELSE SubSeq(s, g.lo - 1, g.next - 1))
            \o GroupsReplacedFrom(s, g.next, m)
GroupsReplacedFrom(s, i, m) == GroupReplaced(s, i, m, NextGroup(s, i))

\* The values the declared variables were given.
DeclaredValues == [v \in Declared |-> UsedVariables[v]]

\* The values given to the declared variables hold no brace.
PlainValues == \A v \in Declared : HoldsNoBrace(UsedVariables[v])

\* Every brace group of the text holds its name without padding.
NoPaddedGroup(s) ==
    \A g \in BraceGroups(s) : Trim(ContentOf(s, g)) = ContentOf(s, g)

\* C29 as stated: in the output of a FmtString template, every brace group
\* from which a declared variable was extracted, a whitespace-padded one
\* included, is replaced by the value of that variable (the values holding
\* no brace).
C29_Original ==
    (Formatted /\ tmpl.template_format = "FmtString" /\ fmtResult.kind = "Ok"
       /\ PlainValues) =>
        fmtResult.text = GroupsReplacedFrom(tmpl.template, 1, DeclaredValues)

\* The same for the templates without a padded group.
UnpaddedGroupsReplaced ==
    (Formatted /\ tmpl.template_format = "FmtString" /\ fmtResult.kind = "Ok"
       /\ PlainValues /\ NoPaddedGroup(tmpl.template)) =>
        fmtResult.text = GroupsReplacedFrom(tmpl.template, 1, DeclaredValues)

-----------------------------------------------------------------------------
(* A Template through serialization (serde derive on Template).            *)

\* derive(Serialize): the field handlebars is skipped.
SerializeTemplate(t) ==
    [template |-> t.template,
     template_format |-> t.template_format,
     input_variables |-> t.input_variables,
     partials |-> t.partials]

\* derive(Deserialize): the skipped field handlebars takes its default, None.
DeserializeTemplate(j) ==
    [template |-> j.template,
     template_format |-> j.template_format,
     input_variables |-> j.input_variables,
     handlebars |-> FALSE,
     partials |-> j.partials]

InitSerde ==
    /\ raw \in CallRaws
    /\ phase = "init"
    /\ tmpl = NoTemplate
    /\ newErr = "none"
    /\ lastVars = EmptyMap
    /\ fmtResult = NoResult
    /\ ChatIdle
    /\ ExtraIdle

\* serde_json::from_str::<Template>(&serde_json::to_string(&template))
RoundTrip ==
    /\ phase = "built"
    /\ tmpl' = DeserializeTemplate(SerializeTemplate(tmpl))
    /\ lastVars' = EmptyMap
    /\ fmtResult' = NoResult
    /\ UNCHANGED <<raw, phase, newErr, cvars, xvars>>

NextSerde ==
    \/ New
    \/ \E name \in VarNames, value \in PartialValues : Partial(name, value)
    \/ RoundTrip
    \/ \E runtime \in VarMaps : Format(runtime)

SpecSerde == InitSerde /\ [][NextSerde]_vars

\* The Template as Template::new built it, with the partial values it has now.
AsBuilt == [TemplateNew(raw).value EXCEPT !.partials = tmpl.partials]

\* C30 as stated: a Template built by Template::new or read back from its
\* serialized form has its renderer iff its format is Mustache; formatting
\* a Mustache template never fails with UnsupportedFormat; and a Template
\* read back from its serialized form formats as the original does.
C30_Original ==
    phase = "built" =>
        /\ tmpl.handlebars <=> tmpl.template_format = "Mustache"
        /\ (Formatted /\ tmpl.template_format = "Mustache")
              => fmtResult.kind # "UnsupportedFormat"
        /\ Formatted => fmtResult = TemplateFormat(AsBuilt, lastVars)

\* The same for the Templates that have their renderer or need none.
BuiltTemplateHasRenderer ==
    (phase = "built" /\ tmpl = AsBuilt) =>
        /\ tmpl.handlebars <=> tmpl.template_format = "Mustache"
        /\ (Formatted /\ tmpl.template_format = "Mustache")
              => fmtResult.kind # "UnsupportedFormat"

====
